---------------------------- MODULE Spec2Model ----------------------------
(***************************************************************************)
(* CEAPSI demand forecasting: a model of the ensemble weighting of         *)
(* pcf_scripts/app.py, of the daily aggregation of                         *)
(* forecasting/data_preparation.py, of the alert detection, staffing       *)
(* translation, future-date generation and export of                       *)
(* forecasting/predictions.py, of the training run and cross-validation of *)
(* forecasting/model_training.py, of the retraining pipeline of            *)
(* forecasting/automation_setup.py, of the consolidation of the three      *)
(* transaction kinds into the daily target, and of two runs of the         *)
(* pipeline scripts sharing one results folder.                            *)
(*                                                                         *)
(* Each program is a component with its own variables.  A component that   *)
(* is not running rests in its constructed state (its outputs are NONE,    *)
(* its inputs empty); a specification runs one or two components.          *)
(*                                                                         *)
(* Numbers.  Python floats are modelled as exact fixed-point integers:     *)
(*   - MAE values are positive integers, ensemble weights exact fractions  *)
(*     <<numerator, denominator>>;                                         *)
(*   - forecast values (yhat, yhat_lower, yhat_upper) are in tenths;       *)
(*   - the target y of the daily aggregate is in units of 1/4800           *)
(*     person-day, the unit in which (minutes/60 + 0.1*events)/8 is an     *)
(*     integer when durations are given in tenths of a minute;             *)
(*   - dates are day numbers, day 0 being a Monday, so that                *)
(*     dayofweek(d) = d % 7 with 0 = Monday and 6 = Sunday.                *)
(***************************************************************************)
EXTENDS Integers, Sequences, FiniteSets, TLC

VARIABLES
    \* ---- pcf_scripts/app.py: PipelineProcessor (training step)
    datasets,        \* resultados['segmentacion']['datasets']: tipo -> number of days
    maes,            \* the cross-validation MAE of each model family
    modelos,         \* resultados['modelos']: NONE before the step, then tipo -> result
    retorno_entrenamiento,   \* what ejecutar_entrenamiento_modelos returned
    \* ---- forecasting/predictions.py: staffing translator
    punto,           \* one forecast row: ds, yhat_lower, yhat, yhat_upper
    recomendacion,   \* the recommendation generated for it (NONE before)
    \* ---- forecasting/predictions.py: alert detector
    predicciones,    \* the forecast table handed to detectar_alertas
    alertas,         \* the list it returned (NONE before)
    \* ---- forecasting/data_preparation.py
    transacciones,   \* per date present in the input: summed duration and event count
    df_limites,      \* df_objetivo after the Sunday and hard-bound filters (observed)
    df_prophet,      \* self.df_prophet (NONE before crear_dataframe_prophet)
    archivo_datos,   \* datos_prophet.csv as written by main (NONE: not written)
    salida_preparacion,      \* exit status of data_preparation.py (NONE: not run)
    \* ---- forecasting/predictions.py: future dates
    hoy,             \* datetime.now().date() as a day number
    historia,        \* the dates of the training history held by the fitted model
    dias_futuros,    \* the requested horizon
    fechas_regresores,       \* dates of estimar_regresores_futuros (NONE before)
    fechas_prediccion,       \* dates of the forecast returned (NONE before)
    \* ---- forecasting/automation_setup.py: CeapsiAutomationManager
    ahora,           \* datetime.now(), in ticks (TicksPorDia ticks per day)
    metadatos_base,  \* {base_path}/forecasting/metadatos_modelo.json
    validacion_exitosa,      \* validation verdict saved by the data preparation
    modelo_disco,    \* modelo_prophet.pkl in the latest results folder
    corrida,         \* record of the last ejecutar_pipeline_completo (NONE before)
    corrida_previa,  \* record of the run before the last one (NONE before)
    \* ---- forecasting/predictions.py: ejecutar_prediccion_completa
    motor,           \* the engine's environment: model loads, forecast, writable formats
    exportaciones,   \* the calls of exportar_resultados made, in order
    retorno_prediccion,      \* what ejecutar_prediccion_completa returned (NONE before)
    \* ---- forecasting/model_training.py: main
    serie,           \* the dates (day numbers) of df_prophet
    entorno,         \* which of loading, fitting, refitting and saving succeed
    pliegues,        \* the folds cross_validation evaluated (NONE before)
    metricas,        \* what validar_modelo returned (NONE before it is called)
    modelo_guardado, \* modelo_prophet.pkl and metadatos_modelo.json were written
    salida_entrenador,       \* the closing message of main (NONE before)
    \* ---- the scripts of forecasting/ run as concurrent processes
    reloj,           \* datetime.now() in whole seconds
    procesos,        \* per run: the script, its position, its timestamp, what it read
    ruta_ultima,     \* the latest results folder: file -> the runs that opened it to write
    \* ---- forecasting/data_preparation.py: from the normalised data to the target
    datos_normalizados,      \* the loaded JSON: reservas, conversaciones, llamadas
    objetivo_diario      \* what calcular_variable_objetivo returned (NONE before)

vars == <<datasets, maes, modelos, retorno_entrenamiento,
          punto, recomendacion, predicciones, alertas,
          transacciones, df_limites, df_prophet, archivo_datos, salida_preparacion,
          hoy, historia, dias_futuros, fechas_regresores, fechas_prediccion,
          ahora, metadatos_base, validacion_exitosa, modelo_disco, corrida,
          corrida_previa,
          motor, exportaciones, retorno_prediccion,
          serie, entorno, pliegues, metricas, modelo_guardado, salida_entrenador,
          reloj, procesos, ruta_ultima,
          datos_normalizados, objetivo_diario>>

varsEntrenamiento == <<datasets, maes, modelos, retorno_entrenamiento>>
varsStaffing == <<punto, recomendacion>>
varsAlertas == <<predicciones, alertas>>
varsPreparacion == <<transacciones, df_limites, df_prophet, archivo_datos,
                     salida_preparacion>>
varsFechas == <<hoy, historia, dias_futuros, fechas_regresores, fechas_prediccion>>
varsAutomatizacion == <<ahora, metadatos_base, validacion_exitosa, modelo_disco,
                        corrida, corrida_previa>>
varsExportacion == <<motor, exportaciones, retorno_prediccion>>
varsEntrenador == <<serie, entorno, pliegues, metricas, modelo_guardado,
                    salida_entrenador>>
varsConcurrencia == <<reloj, procesos, ruta_ultima>>
varsConsolidacion == <<datos_normalizados, objetivo_diario>>

\* Python's None, and a value that is present: an optional value is a sequence
\* of length 0 or 1
NONE == <<>>

Some(v) == <<v>>

(***************************************************************************)
(* Helpers: Python built-ins used by the code.                             *)
(***************************************************************************)
Max(a, b) == IF a >= b THEN a ELSE b

Min(a, b) == IF a <= b THEN a ELSE b

\* int(np.ceil(x / d)) for an integer x and d > 0
CeilDiv(x, d) == -((-x) \div d)

RECURSIVE SumSeq(_)
SumSeq(s) == IF s = <<>> THEN 0 ELSE Head(s) + SumSeq(Tail(s))

RECURSIVE MinSeq(_)
MinSeq(s) == IF Len(s) = 1 THEN s[1] ELSE Min(Head(s), MinSeq(Tail(s)))

RECURSIVE ProdSeq(_)
ProdSeq(s) == IF s = <<>> THEN 1 ELSE Head(s) * ProdSeq(Tail(s))

\* dt.dayofweek / date.weekday(): 0 = Monday ... 6 = Sunday
dayofweek(d) == d % 7


(***************************************************************************)
(* pcf_scripts/app.py: the training step of PipelineProcessor.             *)
(***************************************************************************)
\* the keys of the dict `modelos`, in insertion order
Familias == <<"arima", "prophet", "random_forest", "gradient_boosting">>

Tipos == <<"entrante", "saliente">>

MinDiasEntrenamiento == 30

MinDiasModelo == 10

MaxMAE == 3

MaxDiasDataset == 31

\* dataset lengths tried: around the 30-day guard, and a very short one
LongitudesDataset == {1, MinDiasEntrenamiento - 1, MinDiasEntrenamiento, MaxDiasDataset}

\* a dataset: its rows, and how many of them have a value of y; either every row
\* has one or only MinDiasModelo - 1 of them do
DatasetsPosibles ==
    UNION {{[filas |-> n, con_y |-> k] : k \in {Min(n, MinDiasModelo - 1), n}} :
              n \in LongitudesDataset}

\* maes = [m['mae_cv'] for m in modelos.values()]
ListaMaes(m) == [i \in 1..Len(Familias) |-> m[Familias[i]]]

\* The weights before normalisation, peso = mae_min / mae_cv, written over the
\* common denominator ComunDenominador(m) = product of all the MAEs.
ComunDenominador(m) == ProdSeq(ListaMaes(m))

\* A mutant of PesoCrudo: the weight grows with the MAE instead of with its inverse.
PesoCrudoDirecto(m, f) == m[f] * ComunDenominador(m)

PesoCrudo(m, f) == MinSeq(ListaMaes(m)) * (ComunDenominador(m) \div m[f])

\* suma_pesos = sum(pesos.values()), over the same denominator
SumaPesos(m) == SumSeq([i \in 1..Len(Familias) |-> PesoCrudo(m, Familias[i])])

\* A mutant of PesosEnsemble: the normalisation step is left out.
PesosSinNormalizar(m) ==
    [f \in DOMAIN m |-> <<PesoCrudo(m, f), ComunDenominador(m)>>]

\* pesos = {k: v/suma_pesos}: each weight as the fraction <<numerator, denominator>>
PesosEnsemble(m) ==
    [f \in DOMAIN m |-> <<PesoCrudo(m, f), SumaPesos(m)>>]

\* entrenar_modelos_para_tipo: None when fewer than 10 rows are left after
\* dropna(subset=['y']), else the models, their weights and the row count.
\* The MAEs are Python floats: with a MAE of 0 mae_min is 0 and mae_min / mae_cv
\* is 0.0 / 0.0 for that family, a ZeroDivisionError ("ERROR").
entrenar_modelos_para_tipo(dataset, m) ==
    IF dataset.con_y < MinDiasModelo
    THEN [estado |-> "None", pesos_ensemble |-> <<>>, dataset_size |-> dataset.con_y]
    ELSE IF \E f \in DOMAIN m : m[f] = 0
    THEN [estado |-> "ERROR", pesos_ensemble |-> <<>>, dataset_size |-> dataset.con_y]
    ELSE [estado |-> "ok", pesos_ensemble |-> PesosEnsemble(m),
          dataset_size |-> dataset.con_y]

\* A mutant of TiposEntrenables: no tipo is skipped.
TiposSinOmitir(ds) == DOMAIN ds

\* the tipos the loop does not skip: `if len(dataset) < 30: continue`
TiposEntrenables(ds) == {t \in DOMAIN ds : ~(ds[t].filas < MinDiasEntrenamiento)}

\* The simulated cross-validation errors are positive (drawn from ranges above 7).
InitEntrenamiento ==
    /\ datasets \in [{Tipos[1], Tipos[2]} -> DatasetsPosibles]
    /\ maes \in [{Familias[i] : i \in 1..Len(Familias)} -> 1..MaxMAE]
    /\ modelos = NONE
    /\ retorno_entrenamiento = NONE

ReposoEntrenamiento ==
    /\ datasets = <<>>
    /\ maes = <<>>
    /\ modelos = NONE
    /\ retorno_entrenamiento = NONE

\* The weighting code taken as a function of any MAEs, a MAE of 0 included (the
\* simulated ones never are).
InitPesos ==
    /\ datasets \in [{Tipos[1], Tipos[2]} -> DatasetsPosibles]
    /\ maes \in [{Familias[i] : i \in 1..Len(Familias)} -> 0..MaxMAE]
    /\ modelos = NONE
    /\ retorno_entrenamiento = NONE

\* ejecutar_entrenamiento_modelos: a tipo with fewer than 30 days is skipped with
\* a warning; the others are trained, stored in resultados['modelos'], and the
\* step returns True.  An exception raised by a training is caught: the step
\* returns False and resultados['modelos'] is not stored.
ejecutar_entrenamiento_modelos ==
    /\ retorno_entrenamiento = NONE
    /\ DOMAIN datasets # {}
    /\ LET entrenados == [t \in TiposEntrenables(datasets) |->
                              entrenar_modelos_para_tipo(datasets[t], maes)]
       IN IF \E t \in DOMAIN entrenados : entrenados[t].estado = "ERROR"
          THEN /\ modelos' = modelos
               /\ retorno_entrenamiento' = Some(FALSE)
          ELSE /\ modelos' = Some(entrenados)
               /\ retorno_entrenamiento' = Some(TRUE)
    /\ UNCHANGED <<datasets, maes>>

(***************************************************************************)
(* forecasting/predictions.py: generar_recomendaciones_staffing.           *)
(* Forecast values are in tenths, so the code's x / 8 is x / (8 * 10).      *)
(***************************************************************************)
HorasPorPersona == 8

PersonalMinimoBase == 3

PersonalOptimoBase == 4

\* row['ds'].strftime('%A')
NombreDia(d) ==
    <<"Monday", "Tuesday", "Wednesday", "Thursday", "Friday", "Saturday",
      "Sunday">>[dayofweek(d) + 1]

\* personal_minimo = max(3, int(np.ceil(limite_inferior / 8)))
PersonalMinimo(p) ==
    Max(PersonalMinimoBase, CeilDiv(p.yhat_lower, HorasPorPersona * 10))

\* personal_optimo = max(4, int(np.ceil(horas / 8)))
PersonalOptimo(p) ==
    Max(PersonalOptimoBase, CeilDiv(p.yhat, HorasPorPersona * 10))

\* personal_maximo = int(np.ceil(limite_superior / 8))
PersonalMaximo(p) == CeilDiv(p.yhat_upper, HorasPorPersona * 10)

\* tipo_dia and factor_secretarias (in hundredths) from the day name
TipoDia(p) ==
    IF NombreDia(p.ds) \in {"Monday", "Tuesday", "Wednesday"} THEN "Alto trafico"
    ELSE IF NombreDia(p.ds) \in {"Thursday", "Friday"} THEN "Trafico medio"
    ELSE "Trafico reducido"

\* A mutant of FactorSecretarias: every day has the factor of a high-traffic day.
FactorSecretariasAlto(p) == 120

FactorSecretarias(p) ==
    IF NombreDia(p.ds) \in {"Monday", "Tuesday", "Wednesday"} THEN 120
    ELSE IF NombreDia(p.ds) \in {"Thursday", "Friday"} THEN 100
    ELSE 80

\* max(2, int(personal_optimo * 0.4 * factor_secretarias)); the float product
\* truncates to the same integer as the exact one for every optimo below 2000
SecretariasCallCenter(p) ==
    Max(2, (PersonalOptimo(p) * 4 * FactorSecretarias(p)) \div 1000)

\* max(2, int(personal_optimo * 0.6))
Profesionales(p) == Max(2, (PersonalOptimo(p) * 6) \div 10)

\* A mutant of PersonalApoyo: the remainder is taken without its floor of 1.
PersonalApoyoSinPiso(p) ==
    PersonalOptimo(p) - SecretariasCallCenter(p) - Profesionales(p)

\* max(1, personal_optimo - secretarias_call_center - profesionales)
PersonalApoyo(p) ==
    Max(1, PersonalOptimo(p) - SecretariasCallCenter(p) - Profesionales(p))

\* the dict built for one row of the forecast
Recomendacion(p) ==
    [fecha |-> p.ds,
     dia_semana |-> NombreDia(p.ds),
     tipo_dia |-> TipoDia(p),
     horas_predichas |-> p.yhat,
     personal_total |-> [minimo |-> PersonalMinimo(p),
                         optimo |-> PersonalOptimo(p),
                         maximo |-> PersonalMaximo(p)],
     dotacion_detallada |->
         [call_center_secretarias |-> SecretariasCallCenter(p),
          profesionales_medicos |-> Profesionales(p),
          personal_apoyo |-> PersonalApoyo(p)]]

\* generar_recomendaciones_staffing(predicciones): one dict per row, in order
generar_recomendaciones_staffing(tabla) ==
    [i \in 1..Len(tabla) |-> Recomendacion(tabla[i])]

MinPasos == 1

MaxPasos == 8

\* forecast values tried: below zero, on and just above the multiples of 4.0,
\* and multiples of 8.0 from 64 hours on, where the headcount is 8 and more
ValoresYhat ==
    {k * 40 : k \in (0 - MinPasos)..MaxPasos}
        \cup {k * 40 + 1 : k \in (0 - MinPasos)..MaxPasos}
        \cup {k * 80 : k \in MaxPasos..(MaxPasos + 4)}

\* forecast rows fall on business days only
DiasLaborales == 0..5

InitStaffing ==
    /\ punto \in [ds : DiasLaborales, yhat_lower : ValoresYhat, yhat : ValoresYhat,
                  yhat_upper : ValoresYhat]
    /\ punto.yhat_lower <= punto.yhat
    /\ punto.yhat <= punto.yhat_upper
    /\ recomendacion = NONE

ReposoStaffing ==
    /\ punto = <<>>
    /\ recomendacion = NONE

\* a call of generar_recomendaciones_staffing on the one-row forecast <<punto>>
GenerarRecomendaciones ==
    /\ recomendacion = NONE
    /\ DOMAIN punto # {}
    /\ recomendacion' = Some(generar_recomendaciones_staffing(<<punto>>))
    /\ UNCHANGED punto

(***************************************************************************)
(* forecasting/predictions.py: detectar_alertas.  Thresholds are the       *)
(* code's, in tenths.                                                      *)
(***************************************************************************)
umbral_alto == 50

umbral_muy_alto == 60

umbral_bajo == 25

umbral_incertidumbre == 15

umbral_patron_semanal == 45

DiasPatronSemanal == 7

\* one alert dict (mensaje and accion are fixed texts of the tipo and are left out)
Alerta(t, p, prio) ==
    [tipo |-> t, fecha |-> p.ds, dia_semana |-> NombreDia(p.ds),
     horas_predichas |-> p.yhat, prioridad |-> prio]

\* A mutant of AlertasDemanda: the tiers are tested by independent ifs.
AlertasDemandaSinElif(p) ==
    (IF p.yhat > umbral_muy_alto * 10 THEN <<Alerta("CRITICA", p, 1)>> ELSE <<>>)
        \o (IF p.yhat > umbral_alto * 10 THEN <<Alerta("ALTA", p, 2)>> ELSE <<>>)
        \o (IF p.yhat < umbral_bajo * 10 THEN <<Alerta("BAJA", p, 3)>> ELSE <<>>)

\* the if / elif / elif chain on horas = row['yhat']
AlertasDemanda(p) ==
    IF p.yhat > umbral_muy_alto * 10 THEN <<Alerta("CRITICA", p, 1)>>
    ELSE IF p.yhat > umbral_alto * 10 THEN <<Alerta("ALTA", p, 2)>>
    ELSE IF p.yhat < umbral_bajo * 10 THEN <<Alerta("BAJA", p, 3)>>
    ELSE <<>>

\* A mutant of AlertasIncertidumbre: the test is one more branch of the chain.
AlertasIncertidumbreSinNivel(p) ==
    IF AlertasDemanda(p) = <<>> /\ p.yhat_upper - p.yhat > umbral_incertidumbre * 10
    THEN <<Alerta("INCERTIDUMBRE", p, 3)>>
    ELSE <<>>

\* incertidumbre = limite_superior - horas; if incertidumbre > 15
AlertasIncertidumbre(p) ==
    IF p.yhat_upper - p.yhat > umbral_incertidumbre * 10
    THEN <<Alerta("INCERTIDUMBRE", p, 3)>>
    ELSE <<>>

\* the alerts appended by the loop over the rows, in generation order
RECURSIVE AlertasPorFila(_)
AlertasPorFila(tabla) ==
    IF tabla = <<>> THEN <<>>
    ELSE AlertasDemanda(Head(tabla)) \o AlertasIncertidumbre(Head(tabla))
             \o AlertasPorFila(Tail(tabla))

\* round(x / n, 1) of a sum x in tenths: the nearest tenth (n odd: no ties)
PromedioRedondeado(x, n) == (2 * x + n) \div (2 * n)

\* A mutant of AlertaPatronSemanal: a mean of exactly 45 raises the alert too.
AlertaPatronSemanalInclusiva(tabla) ==
    IF Len(tabla) >= DiasPatronSemanal
    THEN LET suma == SumSeq([i \in 1..DiasPatronSemanal |-> tabla[i].yhat])
         IN IF suma >= umbral_patron_semanal * 10 * DiasPatronSemanal
            THEN <<[tipo |-> "PATRON_SEMANAL", fecha |-> tabla[1].ds,
                    dia_semana |-> "Toda la semana",
                    horas_predichas |-> PromedioRedondeado(suma, DiasPatronSemanal),
                    prioridad |-> 2]>>
            ELSE <<>>
    ELSE <<>>

\* predicciones.head(7)['yhat'].mean() > 45, and the alert of the week
AlertaPatronSemanal(tabla) ==
    IF Len(tabla) >= DiasPatronSemanal
    THEN LET suma == SumSeq([i \in 1..DiasPatronSemanal |-> tabla[i].yhat])
         IN IF suma > umbral_patron_semanal * 10 * DiasPatronSemanal
            THEN <<[tipo |-> "PATRON_SEMANAL", fecha |-> tabla[1].ds,
                    dia_semana |-> "Toda la semana",
                    horas_predichas |-> PromedioRedondeado(suma, DiasPatronSemanal),
                    prioridad |-> 2]>>
            ELSE <<>>
    ELSE <<>>

ConPrioridad1(a) == a.prioridad = 1

ConPrioridad2(a) == a.prioridad = 2

ConPrioridad3(a) == a.prioridad = 3

\* A mutant of OrdenarPorPrioridad: a sort that is not stable (equal keys come
\* out in reverse).
OrdenarSinEstabilidad(lista) ==
    LET alreves == [i \in 1..Len(lista) |-> lista[Len(lista) + 1 - i]]
    IN SelectSeq(alreves, ConPrioridad1) \o SelectSeq(alreves, ConPrioridad2)
           \o SelectSeq(alreves, ConPrioridad3)

\* A mutant of OrdenarPorPrioridad: the list is left in generation order.
SinOrdenar(lista) == lista

\* alertas.sort(key=lambda x: x['prioridad']): a stable sort on a key in {1,2,3}
OrdenarPorPrioridad(lista) ==
    SelectSeq(lista, ConPrioridad1) \o SelectSeq(lista, ConPrioridad2)
        \o SelectSeq(lista, ConPrioridad3)

\* detectar_alertas(predicciones)
detectar_alertas(tabla) ==
    IF Len(tabla) = 0 THEN <<>>
    ELSE OrdenarPorPrioridad(AlertasPorFila(tabla) \o AlertaPatronSemanal(tabla))

\* the i-th business day counted from day 0 (a Monday)
DiaLaboral(i) == 7 * ((i - 1) \div 6) + ((i - 1) % 6)

MaxFilasAlertas == 2

\* yhat values tried, in tenths: 3.0, 7.0 and 8.0 (24, 56 and 64 person-hours),
\* and values on and around the thresholds 25, 50 and 60
ValoresAlerta == {30, 70, 80, 249, 250, 500, 501, 600, 601, 650}

MargenesAlerta == {0, umbral_incertidumbre * 10, umbral_incertidumbre * 10 + 1}

FilasAlerta(i) ==
    {[ds |-> DiaLaboral(i), yhat |-> y, yhat_upper |-> y + m] :
        y \in ValoresAlerta, m \in MargenesAlerta}

TablasAlerta(n) ==
    {t \in [1..n -> UNION {FilasAlerta(i) : i \in 1..n}] :
        \A i \in 1..n : t[i].ds = DiaLaboral(i)}

MaxFilasSemana == 8

\* rows tried in the longer tables: 20.0 with no margin, 45.0 with no margin,
\* 55.0 with no margin, and 70.0 with a margin above 15
OpcionesSemana ==
    {[yhat |-> 200, margen |-> 0], [yhat |-> 450, margen |-> 0],
     [yhat |-> 550, margen |-> 0],
     [yhat |-> 700, margen |-> umbral_incertidumbre * 10 + 1]}

\* tables of n rows on consecutive business days
TablasSemana(n) ==
    {[i \in 1..n |-> [ds |-> DiaLaboral(i), yhat |-> c[i].yhat,
                      yhat_upper |-> c[i].yhat + c[i].margen]] :
        c \in [1..n -> OpcionesSemana]}

\* short tables over many values, or tables of about a week over a few
InitAlertas ==
    /\ \/ \E n \in 1..MaxFilasAlertas : predicciones \in TablasAlerta(n)
       \/ \E n \in (DiasPatronSemanal - 1)..MaxFilasSemana :
              predicciones \in TablasSemana(n)
    /\ alertas = NONE

ReposoAlertas ==
    /\ predicciones = <<>>
    /\ alertas = NONE

\* a call of detectar_alertas on the forecast table
DetectarAlertas ==
    /\ alertas = NONE
    /\ Len(predicciones) > 0
    /\ alertas' = Some(detectar_alertas(predicciones))
    /\ UNCHANGED predicciones

(***************************************************************************)
(* forecasting/data_preparation.py: crear_dataframe_prophet and main.      *)
(* The input is given per date: the summed duration (tenths of a minute)   *)
(* and the number of events of the date, which is what the groupby of      *)
(* calcular_variable_objetivo reduces the transactions to.                 *)
(***************************************************************************)
\* 1 person-day in the unit of y: 60 minutes * 8 hours * 10 tenths
UnidadY == 60 * 80

LimiteInferiorY == 10

LimiteSuperiorY == 300

\* the dates of a per-date table, ascending
RECURSIVE EnOrden(_)
EnOrden(S) ==
    IF S = {} THEN <<>>
    ELSE LET d == CHOOSE x \in S : \A z \in S : x <= z
         IN <<d>> \o EnOrden(S \ {d})

\* the dates that have at least one transaction: the groups of groupby('fecha_str')
FechasConEventos(tr) == {d \in DOMAIN tr : tr[d].eventos > 0}

\* y = (duracion / 60 + tipo * 0.1) / 8, in units of 1/4800 person-day
VariableObjetivo(t) == t.duracion + 60 * t.eventos

\* calcular_variable_objetivo: one row <ds, y> per date with transactions
calcular_variable_objetivo(tr) ==
    LET ds == EnOrden(FechasConEventos(tr))
    IN [i \in 1..Len(ds) |-> [ds |-> ds[i], y |-> VariableObjetivo(tr[ds[i]])]]

\* A mutant of EsDiaLaboral: the test lets every day of the week through.
EsCualquierDia(d) == dayofweek(d) < 7

\* ['ds'].dt.dayofweek < 6
EsDiaLaboral(d) == dayofweek(d) < 6

FilaLaboral(r) == EsDiaLaboral(r.ds)

\* df_objetivo[df_objetivo['ds'].dt.dayofweek < 6]
FiltrarDomingos(df) == SelectSeq(df, FilaLaboral)

\* A mutant of DentroDeLimites: both comparisons are strict.
DentroDeLimitesEstricto(r) ==
    r.y > LimiteInferiorY * UnidadY /\ r.y < LimiteSuperiorY * UnidadY

\* (df_objetivo['y'] >= 10) & (df_objetivo['y'] <= 300)
DentroDeLimites(r) ==
    r.y >= LimiteInferiorY * UnidadY /\ r.y <= LimiteSuperiorY * UnidadY

FiltrarLimites(df) == SelectSeq(df, DentroDeLimites)

MenorQue(a, b) == a < b

ValoresOrdenados(df) == SortSeq([i \in 1..Len(df) |-> df[i].y], MenorQue)

\* 4 * Series.quantile(k / 4), k = 1 or 3, with pandas' linear interpolation:
\* the position (n - 1) * k / 4 between two consecutive sorted values
Cuartil4(df, k) ==
    LET v == ValoresOrdenados(df)
        h == k * (Len(v) - 1)
        i == (h \div 4) + 1
        r == h % 4
    IN IF r = 0 THEN 4 * v[i] ELSE 4 * v[i] + r * (v[i + 1] - v[i])

IQR4(df) == Cuartil4(df, 3) - Cuartil4(df, 1)

\* A mutant of DentroDeCercas: the fence is 3 IQR wide instead of 1.5.
DentroDeCercasAnchas(y, df) ==
    /\ 8 * y >= 2 * Cuartil4(df, 1) - 6 * IQR4(df)
    /\ 8 * y <= 2 * Cuartil4(df, 3) + 6 * IQR4(df)

\* (y >= Q1 - 1.5 * IQR) & (y <= Q3 + 1.5 * IQR), both sides multiplied by 8
DentroDeCercas(y, df) ==
    /\ 8 * y >= 2 * Cuartil4(df, 1) - 3 * IQR4(df)
    /\ 8 * y <= 2 * Cuartil4(df, 3) + 3 * IQR4(df)

\* df_objetivo[filtro]; the quantiles of an empty column are NaN and keep nothing
FiltrarIQR(df) ==
    LET Dentro(r) == DentroDeCercas(r.y, df)
    IN IF Len(df) = 0 THEN <<>> ELSE SelectSeq(df, Dentro)

\* calcular_regresores: one row per date with transactions.  Only the date
\* regressor dia_semana and the total volume are kept: the other columns are
\* functions of the date's transactions too and decide no row.
calcular_regresores(tr) ==
    LET ds == EnOrden(FechasConEventos(tr))
    IN [i \in 1..Len(ds) |->
           [ds |-> ds[i], dia_semana |-> dayofweek(ds[i]) + 1,
            volumen |-> tr[ds[i]].eventos]]

\* pd.merge(df_objetivo[['ds', 'y']], df_regresores, on='ds', how='inner')
Combinar(dfo, dfr) ==
    LET Tiene(r) == \E j \in 1..Len(dfr) : dfr[j].ds = r.ds
        filas == SelectSeq(dfo, Tiene)
        Reg(d) == dfr[CHOOSE j \in 1..Len(dfr) : dfr[j].ds = d]
    IN [i \in 1..Len(filas) |->
           [ds |-> filas[i].ds, y |-> filas[i].y,
            dia_semana |-> Reg(filas[i].ds).dia_semana,
            volumen |-> Reg(filas[i].ds).volumen]]

FechaMenor(a, b) == a.ds < b.ds

\* df_objetivo after the Sunday and the hard-bound filters (lines 262 and 265)
ObjetivoEnLimites(tr) == FiltrarLimites(FiltrarDomingos(calcular_variable_objetivo(tr)))

\* crear_dataframe_prophet, from the loaded transactions to self.df_prophet
crear_dataframe_prophet(tr) ==
    LET df_objetivo == FiltrarIQR(ObjetivoEnLimites(tr))
        combinado == Combinar(df_objetivo, calcular_regresores(tr))
    IN SortSeq(SelectSeq(combinado, FilaLaboral), FechaMenor)

ColumnasProphet == <<"ds", "y", "dia_semana", "volumen">>

PrimerDia == 4

UltimoDia == 8

\* what a date of the input may hold: nothing, or transactions that give
\* y = 9.99, 10, 20, 200, 300 or 300.01 person-days
OpcionesDia ==
    {[duracion |-> 0, eventos |-> 0],
     [duracion |-> 41952, eventos |-> 100],
     [duracion |-> 42000, eventos |-> 100],
     [duracion |-> 84000, eventos |-> 200],
     [duracion |-> 840000, eventos |-> 2000],
     [duracion |-> 1380000, eventos |-> 1000],
     [duracion |-> 1380048, eventos |-> 1000]}

InitPreparacion ==
    /\ transacciones \in [PrimerDia..UltimoDia -> OpcionesDia]
    /\ FechasConEventos(transacciones) # {}
    /\ df_limites = NONE
    /\ df_prophet = NONE
    /\ archivo_datos = NONE
    /\ salida_preparacion = NONE

ReposoPreparacion ==
    /\ transacciones = <<>>
    /\ df_limites = NONE
    /\ df_prophet = NONE
    /\ archivo_datos = NONE
    /\ salida_preparacion = NONE

\* main() with an input that cannot be loaded: crear_dataframe_prophet returns
\* None, the error is printed and the script ends normally.
PreparacionSinDatos ==
    /\ salida_preparacion = NONE
    /\ DOMAIN transacciones # {}
    /\ salida_preparacion' = Some(0)
    /\ UNCHANGED <<transacciones, df_limites, df_prophet, archivo_datos>>

\* main() with an empty aggregate: validar_datos_prophet calls pd.date_range
\* with NaT bounds, which raises, and the script ends with status 1.
PreparacionVacia ==
    /\ salida_preparacion = NONE
    /\ DOMAIN transacciones # {}
    /\ Len(crear_dataframe_prophet(transacciones)) = 0
    /\ df_limites' = Some(ObjetivoEnLimites(transacciones))
    /\ df_prophet' = Some([columnas |-> ColumnasProphet, filas |-> <<>>])
    /\ salida_preparacion' = Some(1)
    /\ UNCHANGED <<transacciones, archivo_datos>>

\* main() with a non-empty aggregate: validation, the statistical summary (which
\* adds the column 'semana' to self.df_prophet) and guardar_datos_prophet, which
\* is called whatever the validation said and may fail to write.
PreparacionCompleta ==
    /\ salida_preparacion = NONE
    /\ DOMAIN transacciones # {}
    /\ Len(crear_dataframe_prophet(transacciones)) > 0
    /\ LET df == [columnas |-> ColumnasProphet \o <<"semana">>,
                  filas |-> crear_dataframe_prophet(transacciones)]
       IN /\ df_limites' = Some(ObjetivoEnLimites(transacciones))
          /\ df_prophet' = Some(df)
          /\ \E guardado \in BOOLEAN :
                 archivo_datos' = IF guardado THEN Some(df) ELSE NONE
    /\ salida_preparacion' = Some(0)
    /\ UNCHANGED transacciones

NextPreparacion == PreparacionSinDatos \/ PreparacionVacia \/ PreparacionCompleta

(***************************************************************************)
(* forecasting/predictions.py: the dates of estimar_regresores_futuros and *)
(* of generar_predicciones_automaticas.                                    *)
(***************************************************************************)
MargenFuturo == 7

\* fecha_actual.weekday() < 6 (line 113)
EsLunesASabado(d) == dayofweek(d) < 6

\* the while loop of estimar_regresores_futuros: from fecha_actual on, the first
\* `faltan` dates that fall on Monday to Saturday
RECURSIVE FechasFuturas(_, _)
FechasFuturas(fecha_actual, faltan) ==
    IF faltan = 0 THEN <<>>
    ELSE IF EsLunesASabado(fecha_actual)
    THEN <<fecha_actual>> \o FechasFuturas(fecha_actual + 1, faltan - 1)
    ELSE FechasFuturas(fecha_actual + 1, faltan)

\* the ds column of estimar_regresores_futuros(dias_futuros), run on day h
estimar_regresores_futuros(h, n) == FechasFuturas(h + 1, n)

\* model.make_future_dataframe(periods, freq='D'): the dates of the history
\* followed by the `periods` days after its last date
make_future_dataframe(hist, periods) ==
    hist \o [i \in 1..periods |-> hist[Len(hist)] + i]

\* future['ds'].dt.dayofweek < 6 (line 174)
FechaLaboral(d) == dayofweek(d) < 6

Primeros(s, n) == SubSeq(s, 1, Min(n, Len(s)))

\* the ds column of the table generar_predicciones_automaticas returns: the
\* merge with the estimated regressors is a left merge and adds no row, and
\* model.predict returns one row per date of `future`
generar_predicciones_automaticas(hist, h, n) ==
    LET future == SelectSeq(make_future_dataframe(hist, n + MargenFuturo), FechaLaboral)
        Posterior(d) == d > h
    IN Primeros(SelectSeq(future, Posterior), n)

LargoHistoria == 8

MaxHoy == 20

MaxDiasFuturos == 3

InitFechas ==
    /\ hoy \in 0..MaxHoy
    /\ \E ultima \in (LargoHistoria - 1)..MaxHoy :
           historia = [i \in 1..LargoHistoria |-> ultima - LargoHistoria + i]
    /\ dias_futuros \in 1..MaxDiasFuturos
    /\ fechas_regresores = NONE
    /\ fechas_prediccion = NONE

ReposoFechas ==
    /\ hoy = 0
    /\ historia = <<>>
    /\ dias_futuros = 0
    /\ fechas_regresores = NONE
    /\ fechas_prediccion = NONE

\* a call of generar_predicciones_automaticas, which calls
\* estimar_regresores_futuros on the way
GenerarPredicciones ==
    /\ fechas_prediccion = NONE
    /\ Len(historia) > 0
    /\ fechas_regresores' = Some(estimar_regresores_futuros(hoy, dias_futuros))
    /\ fechas_prediccion' =
           Some(generar_predicciones_automaticas(historia, hoy, dias_futuros))
    /\ UNCHANGED <<hoy, historia, dias_futuros>>

(***************************************************************************)
(* forecasting/automation_setup.py: CeapsiAutomationManager.               *)
(* Time is counted in ticks, TicksPorDia to a day, tick 0 opening a        *)
(* Monday.  The scripts of the pipeline run as subprocesses; what each one *)
(* did is an outcome chosen by the environment:                            *)
(*   "ok"      it did its work and ended with status 0;                    *)
(*   "fallo"   it failed, reported the failure itself and ended with       *)
(*             status 0 (the main() of each script prints and returns);    *)
(*   "crash"   an exception escaped it (status other than 0).              *)
(***************************************************************************)
TicksPorDia == 2

DiasAntiguedad == 30

\* (datetime.now() - fecha_entrenamiento).days: whole days, rounded down
DiasDesde(t, fecha) == (t - fecha) \div TicksPorDia

\* datetime.now().weekday() == 0
EsLunes(t) == dayofweek(t \div TicksPorDia) = 0

\* the dict `criterios`
Criterios(t, meta) ==
    [dias_antiguedad |-> DiasDesde(t, meta.fecha_entrenamiento) > DiasAntiguedad,
     es_lunes |-> EsLunes(t),
     datos_insuficientes |-> FALSE]

\* A mutant of evaluar_necesidad_reentrenamiento: a metadata file that cannot be
\* read is treated like a missing one.
EvaluarIlegibleComoAusente(t, meta) ==
    IF meta.estado \in {"ausente", "ilegible"} THEN TRUE
    ELSE LET c == Criterios(t, meta)
         IN c.dias_antiguedad \/ c.es_lunes \/ c.datos_insuficientes

\* evaluar_necesidad_reentrenamiento: True without a metadata file, False when
\* reading it raises, any(criterios.values()) otherwise
evaluar_necesidad_reentrenamiento(t, meta) ==
    IF meta.estado = "ausente" THEN TRUE
    ELSE IF meta.estado = "ilegible" THEN FALSE
    ELSE LET c == Criterios(t, meta)
         IN c.dias_antiguedad \/ c.es_lunes \/ c.datos_insuficientes

\* A mutant of SalidaScript: a script that reports a failure ends with status 1.
SalidaScriptEstricta(resultado) == IF resultado = "ok" THEN 0 ELSE 1

\* the status os.system returns for a script
SalidaScript(resultado) == IF resultado = "crash" THEN 1 ELSE 0

\* the model artifact after a run of model_training.py
ModeloTrasEntrenar(t, modelo, train, escrito) ==
    IF train = "ok" THEN [estado |-> "ok", fecha_entrenamiento |-> t]
    ELSE IF train = "fallo_guardar"
    THEN (IF escrito THEN [estado |-> "ok", fecha_entrenamiento |-> t]
          ELSE [estado |-> "corrupto", fecha_entrenamiento |-> modelo.fecha_entrenamiento])
    ELSE modelo

\* ejecutar_pipeline_completo: the stages run, in order, until one raises
Pipeline(t, meta, modelo, prep, train, escrito, pred, criticas) ==
    LET necesita == evaluar_necesidad_reentrenamiento(t, meta)
        base == [instante |-> t,
                 etapas |-> <<"extraccion", "preparacion">>,
                 preparacion |-> prep,
                 necesita_reentrenamiento |-> "no_evaluado",
                 entrenamiento |-> "no_ejecutado",
                 prediccion |-> "no_ejecutado",
                 modelo_previo |-> modelo,
                 pronostico |-> NONE,
                 notificacion_error |-> TRUE,
                 retorno |-> FALSE]
        evaluado == [base EXCEPT !.necesita_reentrenamiento =
                                     IF necesita THEN "True" ELSE "False"]
        entrenado == IF necesita
                     THEN [evaluado EXCEPT !.etapas = @ \o <<"entrenamiento">>,
                                           !.entrenamiento = train]
                     ELSE evaluado
        modelo2 == IF necesita THEN ModeloTrasEntrenar(t, modelo, train, escrito)
                   ELSE modelo
        predicho == [entrenado EXCEPT !.etapas = @ \o <<"prediccion">>,
                                      !.prediccion = pred,
                                      !.pronostico =
                                          IF pred = "ok"
                                          THEN Some(modelo2.fecha_entrenamiento)
                                          ELSE NONE]
        completo == [predicho EXCEPT
                        !.etapas = @ \o <<"alertas">>
                                     \o (IF criticas THEN <<"notificacion">> ELSE <<>>)
                                     \o <<"dashboard">>,
                        !.notificacion_error = FALSE,
                        !.retorno = TRUE]
    IN IF SalidaScript(prep) # 0 THEN [corrida |-> base, modelo |-> modelo]
       ELSE IF necesita /\ SalidaScript(train) # 0
       THEN [corrida |-> entrenado, modelo |-> modelo2]
       ELSE IF SalidaScript(pred) # 0
       THEN [corrida |-> predicho, modelo |-> modelo2]
       ELSE [corrida |-> completo, modelo |-> modelo2]

MaxAhora == 65

\* the training timestamps tried: the opening tick and the one after it
FechasEntrenamiento == {0, 1}

MetadatosPosibles ==
    {[estado |-> "ausente", fecha_entrenamiento |-> 0],
     [estado |-> "ilegible", fecha_entrenamiento |-> 0]}
        \cup {[estado |-> "ok", fecha_entrenamiento |-> f] : f \in FechasEntrenamiento}

\* the artifact of the latest results folder: none, one trained earlier, or one
\* an earlier run left half written
ModelosIniciales ==
    {[estado |-> "ausente", fecha_entrenamiento |-> -1],
     [estado |-> "ok", fecha_entrenamiento |-> -1],
     [estado |-> "corrupto", fecha_entrenamiento |-> -1]}

ResultadosPreparacion == {"ok", "fallo", "crash"}

ResultadosEntrenamiento == {"ok", "fallo", "fallo_guardar", "crash"}

ResultadosPrediccion == {"ok", "fallo", "crash"}

InitAutomatizacion ==
    /\ ahora \in 0..MaxAhora
    /\ metadatos_base \in MetadatosPosibles
    /\ validacion_exitosa \in BOOLEAN
    /\ modelo_disco \in ModelosIniciales
    /\ corrida = NONE
    /\ corrida_previa = NONE

ReposoAutomatizacion ==
    /\ ahora = 0
    /\ metadatos_base = <<>>
    /\ validacion_exitosa = TRUE
    /\ modelo_disco = <<>>
    /\ corrida = NONE
    /\ corrida_previa = NONE

\* The run of ejecutar_pipeline_completo at the instant `ahora`.  predictions.py can only forecast with
\* an artifact it can load.  The metadata file the manager reads is in
\* {base_path}/forecasting, where no script of the pipeline writes.
ejecutar_pipeline_completo ==
    \E prep \in ResultadosPreparacion, train \in ResultadosEntrenamiento,
       escrito \in BOOLEAN, pred \in ResultadosPrediccion, criticas \in BOOLEAN :
        LET r == Pipeline(ahora, metadatos_base, modelo_disco, prep, train, escrito,
                          pred, criticas)
        IN /\ IF Len(corrida) = 0 THEN TRUE
              ELSE Len(corrida_previa) = 0 /\ ahora > corrida[1].instante
           /\ DOMAIN metadatos_base # {}
           /\ pred = "ok" => r.modelo.estado = "ok"
           /\ corrida' = Some(r.corrida)
           /\ corrida_previa' = corrida
           /\ modelo_disco' = r.modelo
           /\ UNCHANGED <<ahora, metadatos_base, validacion_exitosa>>

\* schedule.every().day.at("06:00"): the scheduler waits a day after a run
DiaSiguiente ==
    /\ Len(corrida) = 1
    /\ corrida_previa = NONE
    /\ ahora = corrida[1].instante
    /\ ahora' = ahora + TicksPorDia
    /\ UNCHANGED <<metadatos_base, validacion_exitosa, modelo_disco, corrida,
                   corrida_previa>>

(***************************************************************************)
(* forecasting/predictions.py: exportar_resultados and                     *)
(* ejecutar_prediccion_completa.                                           *)
(***************************************************************************)
\* the two formats ejecutar_prediccion_completa exports
Formatos == {"json", "excel"}

MaxFilasExportacion == 3

\* a forecast of n rows on consecutive business days, with its three columns
TablasExportacion(n) ==
    {[i \in 1..n |-> [ds |-> DiaLaboral(i), yhat_lower |-> c[i].yhat - c[i].margen,
                      yhat |-> c[i].yhat, yhat_upper |-> c[i].yhat + c[i].margen]] :
        c \in [1..n -> OpcionesSemana]}

\* A mutant of ExportData: the ALTA alerts are counted as critical too.
ExportDataContandoAltas(tabla) ==
    LET lista == detectar_alertas(tabla)
    IN [metadata |-> [horizonte_prediccion |-> Len(tabla),
                      periodo |-> <<tabla[1].ds, tabla[Len(tabla)].ds>>],
        predicciones |-> tabla,
        alertas |-> lista,
        recomendaciones_staffing |-> generar_recomendaciones_staffing(tabla),
        resumen_ejecutivo |->
            [total_alertas |-> Len(lista),
             alertas_criticas |->
                 Cardinality({i \in DOMAIN lista :
                                 lista[i].tipo \in {"CRITICA", "ALTA"}})]]

\* the dict export_data; fecha_generacion, modelo_version and the float summary
\* fields (mean, sum, peak) are left out
ExportData(tabla) ==
    LET lista == detectar_alertas(tabla)
    IN [metadata |-> [horizonte_prediccion |-> Len(tabla),
                      periodo |-> <<tabla[1].ds, tabla[Len(tabla)].ds>>],
        predicciones |-> tabla,
        alertas |-> lista,
        recomendaciones_staffing |-> generar_recomendaciones_staffing(tabla),
        resumen_ejecutivo |->
            [total_alertas |-> Len(lista),
             alertas_criticas |->
                 Cardinality({i \in DOMAIN lista : lista[i].tipo = "CRITICA"})]]

\* exportar_resultados(output_path, formato) on self.predicciones = pred: False
\* when there is no forecast; inside the try, iloc[0] of an empty forecast raises
\* IndexError and a format that cannot be written raises on open / ExcelWriter;
\* every exception is caught and False returned.
exportar_resultados(pred, formato, escribibles) ==
    IF pred = NONE
    THEN [formato |-> formato, exito |-> FALSE, export_data |-> NONE]
    ELSE IF Len(pred[1]) = 0
    THEN [formato |-> formato, exito |-> FALSE, export_data |-> NONE]
    ELSE [formato |-> formato, exito |-> formato \in escribibles,
          export_data |-> Some(ExportData(pred[1]))]

\* what cargar_modelo and generar_predicciones_automaticas give (None, or a
\* forecast that may be empty), and the formats that can be written
InitExportacion ==
    /\ \E n \in 0..MaxFilasExportacion :
           motor \in [carga : BOOLEAN,
                      predicciones : {NONE} \cup {Some(t) : t \in TablasExportacion(n)},
                      escribibles : SUBSET Formatos]
    /\ exportaciones = <<>>
    /\ retorno_prediccion = NONE

ReposoExportacion ==
    /\ motor = <<>>
    /\ exportaciones = <<>>
    /\ retorno_prediccion = NONE

\* ejecutar_prediccion_completa: False when the model does not load or there is
\* no forecast; else the JSON export, the Excel export only `if success`, the
\* summary (idxmax of an empty forecast raises ValueError) and True.
ejecutar_prediccion_completa ==
    /\ retorno_prediccion = NONE
    /\ DOMAIN motor # {}
    /\ IF ~motor.carga \/ motor.predicciones = NONE
       THEN /\ exportaciones' = <<>>
            /\ retorno_prediccion' = Some("False")
       ELSE LET json == exportar_resultados(motor.predicciones, "json",
                                            motor.escribibles)
                excel == exportar_resultados(motor.predicciones, "excel",
                                             motor.escribibles)
            IN /\ exportaciones' = IF json.exito THEN <<json, excel>> ELSE <<json>>
               /\ retorno_prediccion' =
                      IF Len(motor.predicciones[1]) = 0 THEN Some("ValueError")
                      ELSE Some("True")
    /\ UNCHANGED motor

(***************************************************************************)
(* forecasting/model_training.py: main, with Prophet's cross_validation    *)
(* as validar_modelo calls it.  A series is the set of its dates.          *)
(***************************************************************************)
\* cross_validation(self.model, initial='60 days', period='7 days',
\*                  horizon='14 days')
initial == 60

period == 7

horizon == 14

\* df['ds'].min() and df['ds'].max()
MinFecha(s) == CHOOSE d \in s : \A e \in s : d <= e

MaxFecha(s) == CHOOSE d \in s : \A e \in s : d >= e

\* the rows a fold of cutoff c is scored on: cutoff < ds <= cutoff + horizon
FechasDePrueba(s, c) == {d \in s : d > c /\ d <= c + horizon}

\* the rows a fold of cutoff c is fitted on: ds <= cutoff
FechasDeAjuste(s, c) == {d \in s : d <= c}

\* the cutoff tried after c: one period earlier or, when no row falls in its
\* horizon, one horizon before the last row on or before it
CorteAnterior(s, c) ==
    IF FechasDePrueba(s, c - period) = {} /\ c - period > MinFecha(s)
    THEN MaxFecha(FechasDeAjuste(s, c - period)) - horizon
    ELSE c - period

\* the while loop of generate_cutoffs, acc being `result`: cutoffs are added,
\* latest first, as long as the last one leaves the initial window before it
RECURSIVE Cortes(_, _)
Cortes(s, acc) ==
    IF acc[Len(acc)] >= MinFecha(s) + initial
    THEN Cortes(s, Append(acc, CorteAnterior(s, acc[Len(acc)])))
    ELSE acc

\* A mutant of generate_cutoffs: the last cutoff found, the one that no longer
\* leaves the initial window before it, is kept.
CortesSinDescartar(s) ==
    IF MaxFecha(s) - horizon < MinFecha(s) THEN <<>>
    ELSE Cortes(s, <<MaxFecha(s) - horizon>>)

\* generate_cutoffs: the cutoffs, latest first, without the last one found
\* (result[:-1]); <<>> stands for the two ValueErrors ("Less data than horizon")
generate_cutoffs(s) ==
    IF MaxFecha(s) - horizon < MinFecha(s) THEN <<>>
    ELSE LET result == Cortes(s, <<MaxFecha(s) - horizon>>)
         IN SubSeq(result, 1, Len(result) - 1)

\* the folds of cross_validation for a list of cutoffs, earliest first
Pliegues(s, cortes) ==
    [i \in 1..Len(cortes) |->
        LET c == cortes[Len(cortes) + 1 - i]
        IN [cutoff |-> c, ajuste |-> FechasDeAjuste(s, c),
            prueba |-> FechasDePrueba(s, c)]]

\* validar_modelo: the folds of df_cv and the value returned.  Any exception
\* (no cutoff, a fold with fewer than 2 rows to fit, a refit that fails) is
\* caught: there is no df_cv and None is returned.
validar_modelo(s, reajuste) ==
    LET folds == Pliegues(s, generate_cutoffs(s))
    IN IF /\ Len(folds) > 0
          /\ reajuste
          /\ \A i \in 1..Len(folds) : Cardinality(folds[i].ajuste) >= 2
       THEN [pliegues |-> folds, metricas |-> "metricas"]
       ELSE [pliegues |-> <<>>, metricas |-> "None"]

DiasSerieCorta == 70

MaxDiasSerie == 89

MaxPrimerDiaSerie == 6

DiasHueco == 20

\* numbers of calendar days tried: 70, around initial + horizon, and longer
LargosSerie ==
    {DiasSerieCorta, initial + horizon - 1, initial + horizon,
     initial + horizon + 1, initial + horizon + period + 1, MaxDiasSerie}

\* n consecutive days
SerieDiaria(primero, n) == primero..(primero + n - 1)

\* the series of datos_prophet.csv: every day, or Sundays left out as
\* data_preparation.py does, or with a run of days missing
SeriesPosibles ==
    UNION {{SerieDiaria(p, n),
            {d \in SerieDiaria(p, n) : EsDiaLaboral(d)},
            {d \in SerieDiaria(p, n) : d < p + initial + 1 \/ d > p + initial + DiasHueco}} :
              p \in 0..MaxPrimerDiaSerie, n \in LargosSerie}

InitEntrenador ==
    /\ serie \in SeriesPosibles
    /\ entorno \in [carga : BOOLEAN, ajuste : BOOLEAN, reajuste : BOOLEAN,
                    guardado : BOOLEAN]
    /\ pliegues = NONE
    /\ metricas = NONE
    /\ modelo_guardado = FALSE
    /\ salida_entrenador = NONE

ReposoEntrenador ==
    /\ serie = {}
    /\ entorno = <<>>
    /\ pliegues = NONE
    /\ metricas = NONE
    /\ modelo_guardado = FALSE
    /\ salida_entrenador = NONE

\* main of model_training.py: cargar_datos, entrenar_modelo, validar_modelo,
\* guardar_modelo, each of the first two ending the run when it fails
MainEntrenador ==
    /\ salida_entrenador = NONE
    /\ DOMAIN entorno # {}
    /\ IF ~entorno.carga
       THEN /\ salida_entrenador' = Some("Error cargando datos")
            /\ UNCHANGED <<pliegues, metricas, modelo_guardado>>
       ELSE IF ~entorno.ajuste
       THEN /\ salida_entrenador' = Some("Error en entrenamiento")
            /\ UNCHANGED <<pliegues, metricas, modelo_guardado>>
       ELSE LET cv == validar_modelo(serie, entorno.reajuste)
            IN /\ pliegues' = Some(cv.pliegues)
               /\ metricas' = Some(cv.metricas)
               /\ modelo_guardado' = entorno.guardado
               /\ salida_entrenador' =
                      IF entorno.guardado THEN Some("ENTRENAMIENTO COMPLETADO")
                      ELSE Some("Error guardando modelo")
    /\ UNCHANGED <<serie, entorno>>

(***************************************************************************)
(* Concurrent runs.  Every script resolves ruta_ultima, the latest         *)
(* resultados_* folder, when it is imported, and reads and writes there:   *)
(* data_preparation.py writes datos_prophet.csv, model_training.py reads   *)
(* it, and exportar_resultados of predictions.py writes                    *)
(* predicciones_ceapsi_{timestamp}.json with a timestamp in seconds.       *)
(***************************************************************************)
NumCorridas == 2

MaxReloj == 2

Corridas == 1..NumCorridas

Scripts == {"data_preparation", "model_training", "predictions"}

\* the file a run writes or reads: a fixed name, or one keyed by the second
ArchivoDe(pr) ==
    IF pr.script = "predictions"
    THEN [nombre |-> "predicciones_ceapsi", timestamp |-> pr.timestamp]
    ELSE [nombre |-> "datos_prophet.csv", timestamp |-> 0]

\* open(filename, 'w') / to_csv by run p: the file is created or truncated
AbrirParaEscribir(carpeta, archivo, p) ==
    [a \in DOMAIN carpeta \cup {archivo} |->
        IF a = archivo
        THEN (IF archivo \in DOMAIN carpeta THEN carpeta[archivo] ELSE {}) \cup {p}
        ELSE carpeta[a]]

\* a run is between opening its file and closing it
Escribiendo(archivo) ==
    \E q \in Corridas :
        procesos[q].pc = "escribiendo" /\ ArchivoDe(procesos[q]) = archivo

InitConcurrencia ==
    /\ reloj = 0
    /\ procesos \in [Corridas -> [script : Scripts, pc : {"inicio"},
                                  timestamp : {0}, leido : {"nada"}]]
    /\ ruta_ultima = <<>>

ReposoConcurrencia ==
    /\ reloj = 0
    /\ procesos = <<>>
    /\ ruta_ultima = <<>>

\* timestamp = datetime.now().strftime('%Y%m%d_%H%M%S')
TomarTimestamp(p) ==
    /\ procesos[p].script = "predictions"
    /\ procesos[p].pc = "inicio"
    /\ procesos' = [procesos EXCEPT ![p].timestamp = reloj, ![p].pc = "con_timestamp"]
    /\ UNCHANGED <<reloj, ruta_ultima>>

\* with open(filename, 'w'), or df.to_csv(filename)
Abrir(p) ==
    /\ \/ procesos[p].script = "predictions" /\ procesos[p].pc = "con_timestamp"
       \/ procesos[p].script = "data_preparation" /\ procesos[p].pc = "inicio"
    /\ ruta_ultima' = AbrirParaEscribir(ruta_ultima, ArchivoDe(procesos[p]), p)
    /\ procesos' = [procesos EXCEPT ![p].pc = "escribiendo"]
    /\ UNCHANGED reloj

\* the file is written out and closed
Cerrar(p) ==
    /\ procesos[p].pc = "escribiendo"
    /\ procesos' = [procesos EXCEPT ![p].pc = "fin"]
    /\ UNCHANGED <<reloj, ruta_ultima>>

\* pd.read_csv(self.datos_path) of cargar_datos
Leer(p) ==
    /\ procesos[p].script = "model_training"
    /\ procesos[p].pc = "inicio"
    /\ LET archivo == ArchivoDe(procesos[p])
       IN procesos' =
              [procesos EXCEPT ![p].pc = "fin",
                               ![p].leido =
                                   IF archivo \notin DOMAIN ruta_ultima THEN "ausente"
                                   ELSE IF Escribiendo(archivo) THEN "a_medias"
                                   ELSE "completo"]
    /\ UNCHANGED <<reloj, ruta_ultima>>

\* a second passes
Tic ==
    /\ DOMAIN procesos # {}
    /\ reloj < MaxReloj
    /\ reloj' = reloj + 1
    /\ UNCHANGED <<procesos, ruta_ultima>>

(***************************************************************************)
(* forecasting/data_preparation.py: consolidar_datos_diarios followed by   *)
(* calcular_variable_objetivo, from the three lists of the normalised      *)
(* data.  Durations are in tenths of a minute.                             *)
(***************************************************************************)
\* the rows appended for one list, tagged with their tipo
Etiquetar(lista, tipo) ==
    [i \in 1..Len(lista) |->
        [fecha_str |-> lista[i].fecha_str, duracion |-> lista[i].duracion,
         tipo |-> tipo]]

\* A mutant of consolidar_datos_diarios: the calls are left out.
ConsolidarSinLlamadas(datos) ==
    Etiquetar(datos.reservas, "reserva")
        \o Etiquetar(datos.conversaciones, "conversacion")

\* consolidar_datos_diarios: one row per reservation, conversation and call
consolidar_datos_diarios(datos) ==
    Etiquetar(datos.reservas, "reserva")
        \o Etiquetar(datos.conversaciones, "conversacion")
        \o Etiquetar(datos.llamadas, "llamada")

\* groupby('fecha_str').agg(duracion=('duracion', 'sum'), tipo=('tipo', 'count'))
AgruparPorFecha(lista) ==
    [d \in {lista[i].fecha_str : i \in 1..Len(lista)} |->
        [duracion |-> SumSeq([i \in 1..Len(lista) |->
                                 IF lista[i].fecha_str = d THEN lista[i].duracion
                                 ELSE 0]),
         eventos |-> Cardinality({i \in 1..Len(lista) : lista[i].fecha_str = d})]]

MaxTransaccionesPorTipo == 2

\* the dates tried: a Saturday and the Monday after it
FechasEntrada == {5, 7}

\* the lists of one kind of transaction, with the durations tried for it
ListasDe(duraciones) ==
    UNION {[1..n -> [fecha_str : FechasEntrada, duracion : duraciones]] :
              n \in 0..MaxTransaccionesPorTipo}

InitConsolidacion ==
    /\ datos_normalizados \in [reservas : ListasDe({300, 450}),
                               conversaciones : ListasDe({100}),
                               llamadas : ListasDe({50})]
    /\ objetivo_diario = NONE

ReposoConsolidacion ==
    /\ datos_normalizados = <<>>
    /\ objetivo_diario = NONE

\* steps 2 and 3 of crear_dataframe_prophet: the transactions are consolidated
\* and the target is computed from them
CalcularVariableObjetivo ==
    /\ objetivo_diario = NONE
    /\ DOMAIN datos_normalizados # {}
    /\ objetivo_diario' =
           Some(calcular_variable_objetivo(
                    AgruparPorFecha(consolidar_datos_diarios(datos_normalizados))))
    /\ UNCHANGED datos_normalizados

(***************************************************************************)
(* Specifications: one per program, and two that run either of two         *)
(* programs.                                                               *)
(***************************************************************************)
NextEntrenamiento ==
    /\ ejecutar_entrenamiento_modelos
    /\ UNCHANGED <<varsStaffing, varsAlertas, varsPreparacion, varsFechas,
                   varsAutomatizacion,
                   varsExportacion, varsEntrenador,
                   varsConcurrencia,
                   varsConsolidacion>>

InitEntrenamientoSolo ==
    /\ InitEntrenamiento /\ ReposoStaffing /\ ReposoAlertas /\ ReposoPreparacion
    /\ ReposoFechas /\ ReposoAutomatizacion
    /\ ReposoExportacion /\ ReposoEntrenador
    /\ ReposoConcurrencia
    /\ ReposoConsolidacion

SpecEntrenamiento == InitEntrenamientoSolo /\ [][NextEntrenamiento]_vars

InitPesosSolo ==
    /\ InitPesos /\ ReposoStaffing /\ ReposoAlertas /\ ReposoPreparacion
    /\ ReposoFechas /\ ReposoAutomatizacion
    /\ ReposoExportacion /\ ReposoEntrenador
    /\ ReposoConcurrencia
    /\ ReposoConsolidacion

\* the training step over any non-negative MAEs
SpecPesos == InitPesosSolo /\ [][NextEntrenamiento]_vars

NextStaffing ==
    /\ GenerarRecomendaciones
    /\ UNCHANGED <<varsEntrenamiento, varsAlertas, varsPreparacion, varsFechas,
                   varsAutomatizacion,
                   varsExportacion, varsEntrenador,
                   varsConcurrencia,
                   varsConsolidacion>>

InitStaffingSolo ==
    /\ InitStaffing /\ ReposoEntrenamiento /\ ReposoAlertas /\ ReposoPreparacion
    /\ ReposoFechas /\ ReposoAutomatizacion
    /\ ReposoExportacion /\ ReposoEntrenador
    /\ ReposoConcurrencia
    /\ ReposoConsolidacion

SpecStaffing == InitStaffingSolo /\ [][NextStaffing]_vars

NextAlertas ==
    /\ DetectarAlertas
    /\ UNCHANGED <<varsEntrenamiento, varsStaffing, varsPreparacion, varsFechas,
                   varsAutomatizacion,
                   varsExportacion, varsEntrenador,
                   varsConcurrencia,
                   varsConsolidacion>>

InitAlertasSolo ==
    /\ InitAlertas /\ ReposoEntrenamiento /\ ReposoStaffing /\ ReposoPreparacion
    /\ ReposoFechas /\ ReposoAutomatizacion
    /\ ReposoExportacion /\ ReposoEntrenador
    /\ ReposoConcurrencia
    /\ ReposoConsolidacion

SpecAlertas == InitAlertasSolo /\ [][NextAlertas]_vars

NextSoloPreparacion ==
    /\ NextPreparacion
    /\ UNCHANGED <<varsEntrenamiento, varsStaffing, varsAlertas, varsFechas,
                   varsAutomatizacion,
                   varsExportacion, varsEntrenador,
                   varsConcurrencia,
                   varsConsolidacion>>

InitPreparacionSolo ==
    /\ InitPreparacion /\ ReposoEntrenamiento /\ ReposoStaffing /\ ReposoAlertas
    /\ ReposoFechas /\ ReposoAutomatizacion
    /\ ReposoExportacion /\ ReposoEntrenador
    /\ ReposoConcurrencia
    /\ ReposoConsolidacion

SpecPreparacion == InitPreparacionSolo /\ [][NextSoloPreparacion]_vars

NextSoloFechas ==
    /\ GenerarPredicciones
    /\ UNCHANGED <<varsEntrenamiento, varsStaffing, varsAlertas, varsPreparacion,
                   varsAutomatizacion,
                   varsExportacion, varsEntrenador,
                   varsConcurrencia,
                   varsConsolidacion>>

InitFechasSolo ==
    /\ InitFechas /\ ReposoEntrenamiento /\ ReposoStaffing /\ ReposoAlertas
    /\ ReposoPreparacion /\ ReposoAutomatizacion
    /\ ReposoExportacion /\ ReposoEntrenador
    /\ ReposoConcurrencia
    /\ ReposoConsolidacion

SpecFechas == InitFechasSolo /\ [][NextSoloFechas]_vars

\* a run of data_preparation.py or a run of the prediction engine
InitDomingos ==
    /\ \/ InitPreparacion /\ ReposoFechas
       \/ ReposoPreparacion /\ InitFechas
    /\ ReposoEntrenamiento /\ ReposoStaffing /\ ReposoAlertas /\ ReposoAutomatizacion
    /\ ReposoExportacion /\ ReposoEntrenador
    /\ ReposoConcurrencia
    /\ ReposoConsolidacion

SpecDomingos == InitDomingos /\ [][NextSoloPreparacion \/ NextSoloFechas]_vars

\* a run of data_preparation.py or the training step of app.py
InitDatosInsuficientes ==
    /\ \/ InitPreparacion /\ ReposoEntrenamiento
       \/ ReposoPreparacion /\ InitEntrenamiento
    /\ ReposoStaffing /\ ReposoAlertas /\ ReposoFechas /\ ReposoAutomatizacion
    /\ ReposoExportacion /\ ReposoEntrenador
    /\ ReposoConcurrencia
    /\ ReposoConsolidacion

SpecDatosInsuficientes == InitDatosInsuficientes /\ [][NextSoloPreparacion \/ NextEntrenamiento]_vars

NextAutomatizacion ==
    /\ ejecutar_pipeline_completo
    /\ UNCHANGED <<varsEntrenamiento, varsStaffing, varsAlertas, varsPreparacion,
                   varsFechas,
                   varsExportacion, varsEntrenador,
                   varsConcurrencia,
                   varsConsolidacion>>

InitAutomatizacionSolo ==
    /\ InitAutomatizacion /\ ReposoEntrenamiento /\ ReposoStaffing /\ ReposoAlertas
    /\ ReposoPreparacion /\ ReposoFechas
    /\ ReposoExportacion /\ ReposoEntrenador
    /\ ReposoConcurrencia
    /\ ReposoConsolidacion

SpecAutomatizacion == InitAutomatizacionSolo /\ [][NextAutomatizacion]_vars

NextProgramado ==
    /\ ejecutar_pipeline_completo \/ DiaSiguiente
    /\ UNCHANGED <<varsEntrenamiento, varsStaffing, varsAlertas, varsPreparacion,
                   varsFechas,
                   varsExportacion, varsEntrenador,
                   varsConcurrencia,
                   varsConsolidacion>>

\* the scheduled loop: two runs of the pipeline on consecutive days, the data
\* passing validation
InitProgramado == InitAutomatizacionSolo /\ validacion_exitosa

SpecProgramado == InitProgramado /\ [][NextProgramado]_vars

NextExportacion ==
    /\ ejecutar_prediccion_completa
    /\ UNCHANGED <<varsEntrenamiento, varsStaffing, varsAlertas, varsPreparacion,
                   varsFechas, varsAutomatizacion, varsEntrenador,
                   varsConcurrencia,
                   varsConsolidacion>>

InitExportacionSolo ==
    /\ InitExportacion /\ ReposoEntrenamiento /\ ReposoStaffing /\ ReposoAlertas
    /\ ReposoPreparacion /\ ReposoFechas /\ ReposoAutomatizacion
    /\ ReposoEntrenador
    /\ ReposoConcurrencia
    /\ ReposoConsolidacion

SpecExportacion == InitExportacionSolo /\ [][NextExportacion]_vars

NextEntrenador ==
    /\ MainEntrenador
    /\ UNCHANGED <<varsEntrenamiento, varsStaffing, varsAlertas, varsPreparacion,
                   varsFechas, varsAutomatizacion, varsExportacion,
                   varsConcurrencia,
                   varsConsolidacion>>

InitEntrenadorSolo ==
    /\ InitEntrenador /\ ReposoEntrenamiento /\ ReposoStaffing /\ ReposoAlertas
    /\ ReposoPreparacion /\ ReposoFechas /\ ReposoAutomatizacion
    /\ ReposoExportacion
    /\ ReposoConcurrencia
    /\ ReposoConsolidacion

SpecEntrenador == InitEntrenadorSolo /\ [][NextEntrenador]_vars

\* the training step of app.py or a run of model_training.py
InitFamilias ==
    /\ \/ InitPesos /\ ReposoEntrenador
       \/ ReposoEntrenamiento /\ InitEntrenador
    /\ ReposoStaffing /\ ReposoAlertas /\ ReposoPreparacion /\ ReposoFechas
    /\ ReposoAutomatizacion /\ ReposoExportacion
    /\ ReposoConcurrencia
    /\ ReposoConsolidacion

SpecFamilias == InitFamilias /\ [][NextEntrenamiento \/ NextEntrenador]_vars

NextConcurrencia ==
    /\ \/ \E p \in DOMAIN procesos :
              TomarTimestamp(p) \/ Abrir(p) \/ Cerrar(p) \/ Leer(p)
       \/ Tic
    /\ UNCHANGED <<varsEntrenamiento, varsStaffing, varsAlertas, varsPreparacion,
                  varsFechas, varsAutomatizacion, varsExportacion, varsEntrenador,
                   varsConsolidacion>>

InitConcurrenciaSolo ==
    /\ InitConcurrencia /\ ReposoEntrenamiento /\ ReposoStaffing /\ ReposoAlertas
    /\ ReposoPreparacion /\ ReposoFechas /\ ReposoAutomatizacion
    /\ ReposoExportacion /\ ReposoEntrenador
    /\ ReposoConsolidacion

SpecConcurrencia == InitConcurrenciaSolo /\ [][NextConcurrencia]_vars

NextConsolidacion ==
    /\ CalcularVariableObjetivo
    /\ UNCHANGED <<varsEntrenamiento, varsStaffing, varsAlertas, varsPreparacion,
                   varsFechas, varsAutomatizacion, varsExportacion, varsEntrenador,
                   varsConcurrencia>>

InitConsolidacionSolo ==
    /\ InitConsolidacion /\ ReposoEntrenamiento /\ ReposoStaffing /\ ReposoAlertas
    /\ ReposoPreparacion /\ ReposoFechas /\ ReposoAutomatizacion
    /\ ReposoExportacion /\ ReposoEntrenador /\ ReposoConcurrencia

SpecConsolidacion == InitConsolidacionSolo /\ [][NextConsolidacion]_vars

(***************************************************************************)
(* Properties.                                                             *)
(***************************************************************************)
FamiliasDe(w) == DOMAIN w

RECURSIVE MCD(_, _)
MCD(a, b) == IF b = 0 THEN a ELSE MCD(b, a % b)

\* p + q for fractions <<numerator, denominator>>, in lowest terms
SumaFraccion(p, q) ==
    LET n == p[1] * q[2] + q[1] * p[2]
        d == p[2] * q[2]
        g == MCD(d, n)
    IN <<n \div g, d \div g>>

RECURSIVE SumaFracciones(_)
SumaFracciones(s) ==
    IF s = <<>> THEN <<0, 1>> ELSE SumaFraccion(s[1], SumaFracciones(Tail(s)))

\* the sum of the fractions w[f] = <<numerator, denominator>> is exactly 1
SumaEsUno(w) ==
    SumaFracciones([i \in 1..Len(Familias) |-> w[Familias[i]]]) = <<1, 1>>

\* C1: for every call type whose training succeeded, each of the three ensemble
\* weights lies between 0 and 1 and the three weights sum to 1.
C1_PesosNormalizados ==
    Len(modelos) = 1 =>
        \A t \in DOMAIN modelos[1] :
            modelos[1][t].estado = "ok" =>
                LET w == modelos[1][t].pesos_ensemble
                IN /\ FamiliasDe(w) = {Familias[i] : i \in 1..Len(Familias)}
                   /\ \A f \in FamiliasDe(w) :
                          w[f][2] > 0 /\ 0 <= w[f][1] /\ w[f][1] <= w[f][2]
                   /\ SumaEsUno(w)

\* a call type trained from three different cross-validation errors
C1_Testigo ==
    /\ Len(modelos) = 1
    /\ "entrante" \in DOMAIN modelos[1]
    /\ modelos[1]["entrante"].estado = "ok"
    /\ maes["arima"] = 1 /\ maes["prophet"] = 2 /\ maes["random_forest"] = 3
    /\ modelos[1]["entrante"].pesos_ensemble["prophet"] # 
           modelos[1]["entrante"].pesos_ensemble["arima"]

\* C2: in every staffing recommendation generated,
\* personal_minimo <= personal_optimo <= personal_maximo.
C2_PersonalOrdenado ==
    Len(recomendacion) = 1 =>
        \A i \in 1..Len(recomendacion[1]) :
            LET pt == recomendacion[1][i].personal_total
            IN pt.minimo <= pt.optimo /\ pt.optimo <= pt.maximo

\* C3: no Sunday date is in the daily aggregate, in the saved aggregate, in the
\* estimated future regressors or in the forecast.
C3_SinDomingos ==
    LET SinDomingoFilas(o) ==
            Len(o) = 1 => \A i \in 1..Len(o[1].filas) : dayofweek(o[1].filas[i].ds) # 6
        SinDomingoFechas(o) ==
            Len(o) = 1 => \A i \in 1..Len(o[1]) : dayofweek(o[1][i]) # 6
    IN /\ SinDomingoFilas(df_prophet)
       /\ SinDomingoFilas(archivo_datos)
       /\ SinDomingoFechas(fechas_regresores)
       /\ SinDomingoFechas(fechas_prediccion)

\* the input has a Sunday whose volume passes every other filter, and the
\* aggregate built from it was saved with the rows of the other days
C3_Testigo ==
    /\ Len(archivo_datos) = 1
    /\ Len(archivo_datos[1].filas) >= 2
    /\ \E d \in DOMAIN transacciones :
           /\ dayofweek(d) = 6
           /\ transacciones[d].eventos > 0
           /\ \E e \in DOMAIN transacciones :
                  /\ dayofweek(e) # 6
                  /\ transacciones[e] = transacciones[d]
                  /\ \E i \in 1..Len(archivo_datos[1].filas) :
                         archivo_datos[1].filas[i].ds = e

AlertasDeDemanda(lista, d) ==
    {i \in 1..Len(lista) :
        lista[i].fecha = d /\ lista[i].tipo \in {"CRITICA", "ALTA", "BAJA"}}

\* C4: a forecast day gets at most one of the alerts CRITICA, ALTA and BAJA; a
\* day with yhat above 60 gets exactly one, CRITICA.
C4_AlertasExcluyentes ==
    Len(alertas) = 1 =>
        \A i \in 1..Len(predicciones) :
            LET propias == AlertasDeDemanda(alertas[1], predicciones[i].ds)
            IN /\ Cardinality(propias) <= 1
               /\ predicciones[i].yhat > 600 =>
                      /\ Cardinality(propias) = 1
                      /\ \A j \in propias : alertas[1][j].tipo = "CRITICA"

\* a day with yhat = 65 and its single CRITICA alert
C4_Testigo ==
    /\ Len(alertas) = 1
    /\ \E i \in 1..Len(predicciones) :
           /\ predicciones[i].yhat = 650
           /\ \E j \in 1..Len(alertas[1]) :
                  /\ alertas[1][j].fecha = predicciones[i].ds
                  /\ alertas[1][j].tipo = "CRITICA"

\* C5: the tiers are decided on yhat * 8 person-hours (above 60 CRITICA, above
\* 50 ALTA, below 25 BAJA), and the alert's horas_predichas is yhat * 8.
C5_UmbralesEnHorasPersona ==
    Len(alertas) = 1 =>
        \A i \in 1..Len(predicciones) :
            LET horas == predicciones[i].yhat * HorasPorPersona
                Tiene(tipo) ==
                    \E j \in 1..Len(alertas[1]) :
                        /\ alertas[1][j].fecha = predicciones[i].ds
                        /\ alertas[1][j].tipo = tipo
                        /\ alertas[1][j].horas_predichas = horas
            IN /\ horas > umbral_muy_alto * 10 => Tiene("CRITICA")
               /\ (horas > umbral_alto * 10 /\ horas <= umbral_muy_alto * 10)
                      => Tiene("ALTA")
               /\ horas < umbral_bajo * 10 => Tiene("BAJA")

\* y of the date d of the input, in units of 1/4800 person-day
YDelDia(d) == VariableObjetivo(transacciones[d])

EnDfLimites(d) == \E i \in 1..Len(df_limites[1]) : df_limites[1][i].ds = d

EnDfProphet(d) ==
    \E i \in 1..Len(df_prophet[1].filas) : df_prophet[1].filas[i].ds = d

\* C6: a business day with y exactly 10 or exactly 300 passes the hard-bound
\* filter, one with y = 9.99 or 300.01 is removed by it, and every row of the
\* final aggregate has 10 <= y <= 300.
C6_LimitesInclusivos ==
    Len(df_limites) = 1 =>
        /\ \A d \in FechasConEventos(transacciones) :
               dayofweek(d) # 6 =>
                   /\ (YDelDia(d) = LimiteInferiorY * UnidadY
                          \/ YDelDia(d) = LimiteSuperiorY * UnidadY) => EnDfLimites(d)
                   /\ (YDelDia(d) = LimiteInferiorY * UnidadY - UnidadY \div 100
                          \/ YDelDia(d) = LimiteSuperiorY * UnidadY + UnidadY \div 100)
                          => ~EnDfLimites(d)
        /\ Len(df_prophet) = 1 =>
               \A i \in 1..Len(df_prophet[1].filas) :
                   /\ df_prophet[1].filas[i].y >= LimiteInferiorY * UnidadY
                   /\ df_prophet[1].filas[i].y <= LimiteSuperiorY * UnidadY

\* business days with y = 10, 300, 9.99 and 300.01 in one input; the first two
\* are in the final aggregate
C6_Testigo ==
    /\ Len(df_limites) = 1
    /\ Len(df_prophet) = 1
    /\ \E d1, d2, d3, d4 \in FechasConEventos(transacciones) :
           /\ dayofweek(d1) # 6 /\ dayofweek(d2) # 6
           /\ dayofweek(d3) # 6 /\ dayofweek(d4) # 6
           /\ YDelDia(d1) = LimiteInferiorY * UnidadY
           /\ YDelDia(d2) = LimiteSuperiorY * UnidadY
           /\ YDelDia(d3) = LimiteInferiorY * UnidadY - UnidadY \div 100
           /\ YDelDia(d4) = LimiteSuperiorY * UnidadY + UnidadY \div 100
           /\ EnDfLimites(d1) /\ EnDfLimites(d2)
           /\ EnDfProphet(d1) /\ EnDfProphet(d2)

\* Q1 - 1.5 * IQR <= y <= Q3 + 1.5 * IQR for the quartiles of the frame `base`
EnCerca(y, base) ==
    LET Q1 == Cuartil4(base, 1)
        Q3 == Cuartil4(base, 3)
    IN /\ 8 * y >= 2 * Q1 - 3 * (Q3 - Q1)
       /\ 8 * y <= 2 * Q3 + 3 * (Q3 - Q1)

\* C7: every retained day lies within the 1.5 * IQR fence of the quartiles of
\* the days that passed the Sunday and hard-bound filters, and a day of that
\* set that lies outside the fence is absent from the output.
C7_CercaIQR ==
    (Len(df_limites) = 1 /\ Len(df_prophet) = 1) =>
        /\ \A i \in 1..Len(df_prophet[1].filas) :
               EnCerca(df_prophet[1].filas[i].y, df_limites[1])
        /\ \A j \in 1..Len(df_limites[1]) :
               ~EnCerca(df_limites[1][j].y, df_limites[1])
                   => ~EnDfProphet(df_limites[1][j].ds)

\* three days of 20 person-days and one of 200: the day of 200 passed the hard
\* bounds and is absent from the aggregate, the other three are in it
C7_Testigo ==
    /\ Len(df_limites) = 1
    /\ Len(df_prophet) = 1
    /\ Len(df_prophet[1].filas) = 3
    /\ \A i \in 1..3 : df_prophet[1].filas[i].y = 20 * UnidadY
    /\ \E j \in 1..Len(df_limites[1]) :
           /\ df_limites[1][j].y = 200 * UnidadY
           /\ ~EnDfProphet(df_limites[1][j].ds)

\* C8 (as claimed): fewer than 30 days make the run fail: data_preparation writes
\* no aggregate file and does not end normally, and the training step stores no
\* model and reports failure.
C8_DatosInsuficientesAbortan ==
    /\ (Len(df_prophet) = 1 /\ Len(df_prophet[1].filas) < MinDiasEntrenamiento) =>
           /\ Len(archivo_datos) = 0
           /\ salida_preparacion # Some(0)
    /\ (Len(retorno_entrenamiento) = 1
           /\ \E t \in DOMAIN datasets : datasets[t].filas < MinDiasEntrenamiento) =>
           /\ retorno_entrenamiento = Some(FALSE)
           /\ Len(modelos) = 0

\* C8 (as the code has it): an aggregate of 1 to 29 days ends data_preparation
\* normally, and the file, when written, holds exactly those days; only an empty
\* aggregate ends it with an error and no file.  The training step skips each
\* tipo with fewer than 30 days, stores a result for every other tipo and
\* reports success.
C8_DatosInsuficientesSeOmiten ==
    /\ (Len(df_prophet) = 1 /\ Len(df_prophet[1].filas) >= 1
           /\ Len(df_prophet[1].filas) < MinDiasEntrenamiento) =>
           /\ salida_preparacion = Some(0)
           /\ Len(archivo_datos) = 1 => archivo_datos[1].filas = df_prophet[1].filas
    /\ (Len(df_prophet) = 1 /\ Len(df_prophet[1].filas) = 0) =>
           /\ salida_preparacion = Some(1)
           /\ Len(archivo_datos) = 0
    /\ Len(retorno_entrenamiento) = 1 =>
           /\ retorno_entrenamiento = Some(TRUE)
           /\ Len(modelos) = 1
           /\ DOMAIN modelos[1] =
                  {t \in DOMAIN datasets : datasets[t].filas >= MinDiasEntrenamiento}

\* a training step over one tipo of 29 days and one of 30: it reported success
\* and stored a model for the second only
C8_Testigo ==
    /\ retorno_entrenamiento = Some(TRUE)
    /\ datasets["entrante"].filas = MinDiasEntrenamiento - 1
    /\ datasets["saliente"].filas = MinDiasEntrenamiento
    /\ Len(modelos) = 1
    /\ DOMAIN modelos[1] = {"saliente"}
    /\ modelos[1]["saliente"].estado = "ok"

\* C9: with readable metadata, retraining is reported needed exactly when more
\* than 30 whole days have passed since the training timestamp, or today is a
\* Monday, or the validation of the prepared data failed.
C9_CriteriosDeReentrenamiento ==
    (Len(corrida) = 1 /\ metadatos_base.estado = "ok"
        /\ corrida[1].necesita_reentrenamiento # "no_evaluado") =>
        (corrida[1].necesita_reentrenamiento = "True"
            <=> \/ DiasDesde(ahora, metadatos_base.fecha_entrenamiento) > DiasAntiguedad
                \/ EsLunes(ahora)
                \/ ~validacion_exitosa)

FalloDeEntrenamiento == {"fallo", "fallo_guardar", "crash"}

\* C10 (as claimed): a run whose retraining failed while a trained model was on
\* disk still runs the prediction stage.
C10_ModeloPrevioSigueSirviendo ==
    (Len(corrida) = 1 /\ corrida[1].entrenamiento \in FalloDeEntrenamiento
        /\ corrida[1].modelo_previo.estado = "ok") =>
        \E i \in 1..Len(corrida[1].etapas) : corrida[1].etapas[i] = "prediccion"

\* C10 (as the code has it): when model_training.py ends with a status other
\* than 0 the run stops there: no prediction stage, no forecast, an error
\* notification, False returned and the artifact on disk untouched.  When it
\* reports its failure and ends with status 0 the prediction stage runs, and
\* if training wrote nothing a forecast that succeeds comes from the previous
\* artifact.
C10_FalloDeEntrenamiento ==
    Len(corrida) = 1 =>
        LET c == corrida[1]
            Predijo == \E i \in 1..Len(c.etapas) : c.etapas[i] = "prediccion"
        IN /\ c.entrenamiento = "crash" =>
                  /\ ~Predijo
                  /\ c.pronostico = NONE
                  /\ c.notificacion_error
                  /\ c.retorno = FALSE
                  /\ modelo_disco = c.modelo_previo
           /\ c.entrenamiento \in {"fallo", "fallo_guardar"} => Predijo
           /\ c.entrenamiento = "fallo" =>
                  /\ modelo_disco = c.modelo_previo
                  /\ c.prediccion = "ok" =>
                         c.pronostico = Some(c.modelo_previo.fecha_entrenamiento)

\* a run whose retraining reported a failure and whose forecast was made with
\* the model trained before the run
C10_Testigo ==
    /\ Len(corrida) = 1
    /\ corrida[1].entrenamiento = "fallo"
    /\ corrida[1].modelo_previo.estado = "ok"
    /\ corrida[1].prediccion = "ok"
    /\ corrida[1].pronostico = Some(corrida[1].modelo_previo.fecha_entrenamiento)
    /\ corrida[1].retorno = TRUE

\* C11: after a run whose retraining succeeded, a run on a later day that is
\* not a Monday and lies within 30 days of the timestamp that training recorded
\* does not retrain.
C11_FrescoTrasReentrenar ==
    (Len(corrida) = 1 /\ Len(corrida_previa) = 1
        /\ corrida_previa[1].entrenamiento = "ok"
        /\ corrida[1].necesita_reentrenamiento # "no_evaluado"
        /\ ~EsLunes(corrida[1].instante)
        /\ DiasDesde(corrida[1].instante,
                     corrida[1].modelo_previo.fecha_entrenamiento) <= DiasAntiguedad) =>
        corrida[1].necesita_reentrenamiento = "False"

\* the fraction p is at least the fraction q
FraccionMayorIgual(p, q) == p[1] * q[2] >= q[1] * p[2]

\* C12: each weight is (min MAE / own MAE) divided by the sum of those ratios;
\* a family with a lower MAE never has a smaller weight than one with a higher
\* MAE, and a family with the minimum MAE has the largest weight.
C12_PesoInversoAlMae ==
    Len(modelos) = 1 =>
        \A t \in DOMAIN modelos[1] :
            modelos[1][t].estado = "ok" =>
                LET w == modelos[1][t].pesos_ensemble
                    mae_min == MinSeq(ListaMaes(maes))
                    suma == SumaFracciones(
                                [i \in 1..Len(Familias) |-> <<mae_min, maes[Familias[i]]>>])
                IN /\ \A f \in DOMAIN w :
                          w[f][1] * suma[1] * maes[f] = w[f][2] * suma[2] * mae_min
                   /\ \A f, g \in DOMAIN w :
                          maes[f] < maes[g] => FraccionMayorIgual(w[f], w[g])
                   /\ \A f, g \in DOMAIN w :
                          maes[f] = mae_min => FraccionMayorIgual(w[f], w[g])

\* a call type trained with MAEs 1, 3, 2, 3: prophet, with three times the MAE of
\* arima, has a third of its weight
C12_Testigo ==
    /\ Len(modelos) = 1
    /\ "saliente" \in DOMAIN modelos[1]
    /\ modelos[1]["saliente"].estado = "ok"
    /\ maes = [arima |-> 1, prophet |-> 3, random_forest |-> 2, gradient_boosting |-> 3]
    /\ 3 * modelos[1]["saliente"].pesos_ensemble["prophet"][1]
           = modelos[1]["saliente"].pesos_ensemble["arima"][1]
    /\ modelos[1]["saliente"].pesos_ensemble["prophet"][2]
           = modelos[1]["saliente"].pesos_ensemble["arima"][2]

PrioridadDeTipo(tipo) ==
    IF tipo = "CRITICA" THEN 1
    ELSE IF tipo \in {"ALTA", "PATRON_SEMANAL"} THEN 2
    ELSE IF tipo \in {"BAJA", "INCERTIDUMBRE"} THEN 3
    ELSE 0

\* C14: the returned list is in ascending order of priority, and every alert
\* has the priority of its type: CRITICA 1, ALTA and PATRON_SEMANAL 2, BAJA and
\* INCERTIDUMBRE 3.
C14_AlertasOrdenadas ==
    Len(alertas) = 1 =>
        /\ \A j \in 1..Len(alertas[1]) :
               /\ alertas[1][j].prioridad \in {1, 2, 3}
               /\ alertas[1][j].prioridad = PrioridadDeTipo(alertas[1][j].tipo)
        /\ \A j, k \in 1..Len(alertas[1]) :
               j < k => alertas[1][j].prioridad <= alertas[1][k].prioridad

\* a week whose first day raises BAJA and a later day CRITICA, with the weekly
\* alert: the list has CRITICA first, then the weekly alert, then BAJA
C14_Testigo ==
    /\ Len(alertas) = 1
    /\ Len(predicciones) >= DiasPatronSemanal
    /\ predicciones[1].yhat = 200
    /\ \E i, j, k \in 1..Len(alertas[1]) :
           /\ i < j /\ j < k
           /\ alertas[1][i].tipo = "CRITICA"
           /\ alertas[1][j].tipo = "PATRON_SEMANAL"
           /\ alertas[1][k].tipo = "BAJA"
           /\ alertas[1][k].fecha = predicciones[1].ds

AlertasSemanales(lista) == {j \in 1..Len(lista) : lista[j].tipo = "PATRON_SEMANAL"}

\* C15: there is exactly one PATRON_SEMANAL alert, dated at the first forecast
\* day, when the mean yhat of the first 7 forecast days is above 45, and none
\* otherwise, whatever the length of the table.
C15_PatronSemanalUnico ==
    Len(alertas) = 1 =>
        LET semanales == AlertasSemanales(alertas[1])
            excede == /\ Len(predicciones) >= 7
                      /\ SumSeq([i \in 1..7 |-> predicciones[i].yhat]) > 45 * 10 * 7
        IN /\ excede => /\ Cardinality(semanales) = 1
                        /\ \A j \in semanales : alertas[1][j].fecha = predicciones[1].ds
           /\ ~excede => semanales = {}

\* eight forecast days whose first seven average more than 45: one weekly alert
C15_Testigo ==
    /\ Len(alertas) = 1
    /\ Len(predicciones) = 8
    /\ SumSeq([i \in 1..7 |-> predicciones[i].yhat]) > 45 * 10 * 7
    /\ predicciones[8].yhat = 200
    /\ Cardinality(AlertasSemanales(alertas[1])) = 1

AlertasDeTipo(lista, d, tipo) ==
    {j \in 1..Len(lista) : lista[j].fecha = d /\ lista[j].tipo = tipo}

\* C16: a forecast date has an INCERTIDUMBRE alert exactly when
\* yhat_upper - yhat > 15, whether or not it has a CRITICA, ALTA or BAJA alert.
C16_IncertidumbreIndependiente ==
    Len(alertas) = 1 =>
        \A i \in 1..Len(predicciones) :
            LET n == Cardinality(AlertasDeTipo(alertas[1], predicciones[i].ds,
                                               "INCERTIDUMBRE"))
            IN IF predicciones[i].yhat_upper - predicciones[i].yhat > 15 * 10
               THEN n = 1 ELSE n = 0

\* one date with CRITICA and INCERTIDUMBRE, another with INCERTIDUMBRE alone
C16_Testigo ==
    /\ Len(alertas) = 1
    /\ Len(predicciones) = 2
    /\ predicciones[1].yhat = 650
    /\ AlertasDeTipo(alertas[1], predicciones[1].ds, "CRITICA") # {}
    /\ AlertasDeTipo(alertas[1], predicciones[1].ds, "INCERTIDUMBRE") # {}
    /\ predicciones[2].yhat = 500
    /\ AlertasDeDemanda(alertas[1], predicciones[2].ds) = {}
    /\ AlertasDeTipo(alertas[1], predicciones[2].ds, "INCERTIDUMBRE") # {}

\* the first day after d that is not a Sunday
SiguienteLaboral(d) == IF dayofweek(d + 1) = 6 THEN d + 2 ELSE d + 1

\* C17: the forecast has exactly the requested number of points, on consecutive
\* business days, the first being the first business day after the last date of
\* the training history, whatever day the run happens on.
C17_HorizonteCompleto ==
    Len(fechas_prediccion) = 1 =>
        LET f == fechas_prediccion[1]
        IN /\ Len(f) = dias_futuros
           /\ f[1] = SiguienteLaboral(historia[Len(historia)])
           /\ \A i \in 1..(Len(f) - 1) : f[i + 1] = SiguienteLaboral(f[i])


\* C18: an export failure is fatal to its format only: in a run of
\* ejecutar_prediccion_completa that reached the exports, each format is
\* attempted whether or not the other one failed.
C18_FormatosIndependientes ==
    (retorno_prediccion # NONE /\ Len(exportaciones) > 0) =>
        \A f \in Formatos :
            \E i \in DOMAIN exportaciones : exportaciones[i].formato = f

\* the families whose weight cannot be computed (0.0 / 0.0 raises)
FamiliasFallidas == {f \in DOMAIN maes : maes[f] = 0}

C21_CorridasAisladas ==
    /\ \A a \in DOMAIN ruta_ultima : Cardinality(ruta_ultima[a]) <= 1
    /\ \A p \in DOMAIN procesos : procesos[p].leido # "a_medias"

\* the stages of ejecutar_pipeline_completo in the order of the code
OrdenDeEtapas ==
    <<"extraccion", "preparacion", "entrenamiento", "prediccion", "alertas",
      "notificacion", "dashboard">>

PosicionDeEtapa(e) == CHOOSE i \in DOMAIN OrdenDeEtapas : OrdenDeEtapas[i] = e

\* the stages of a run that ran
EtapasDe(c) == {c.etapas[i] : i \in DOMAIN c.etapas}

\* the scripts of a run that ran all reported success
EtapasExitosas(c) ==
    /\ c.preparacion = "ok"
    /\ c.entrenamiento \in {"ok", "no_ejecutado"}
    /\ c.prediccion \in {"ok", "no_ejecutado"}

\* C22: the stages of a run are in the order preparation, retraining,
\* prediction, alert check, notification, dashboard; no stage runs after one
\* that failed; and the run returns True exactly when every stage it ran
\* succeeded.
C22_EtapasEnOrden ==
    Len(corrida) = 1 =>
        LET c == corrida[1]
        IN /\ \A i, j \in DOMAIN c.etapas :
                  i < j => PosicionDeEtapa(c.etapas[i]) < PosicionDeEtapa(c.etapas[j])
           /\ c.preparacion # "ok" =>
                  EtapasDe(c) \cap {"entrenamiento", "prediccion", "alertas",
                                    "notificacion", "dashboard"} = {}
           /\ c.entrenamiento \notin {"ok", "no_ejecutado"} =>
                  EtapasDe(c) \cap {"prediccion", "alertas", "notificacion",
                                    "dashboard"} = {}
           /\ c.prediccion \notin {"ok", "no_ejecutado"} =>
                  EtapasDe(c) \cap {"alertas", "notificacion", "dashboard"} = {}
           /\ c.retorno <=> EtapasExitosas(c)

\* the call-center factor of a date, in hundredths: 1.2 from Monday to
\* Wednesday, 1.0 on Thursday and Friday, 0.8 on Saturday
FactorDelDia(d) ==
    IF dayofweek(d) \in 0..2 THEN 120
    ELSE IF dayofweek(d) \in 3..4 THEN 100
    ELSE 80

\* k = max(piso, floor(num / den))
EsMaxConPiso(k, piso, num, den) ==
    \/ k = piso /\ num < (piso + 1) * den
    \/ k > piso /\ k * den <= num /\ num < (k + 1) * den

\* C23: in every recommendation, with f the factor of its day,
\* call_center = max(2, floor(optimo * 0.4 * f)),
\* professionals = max(2, floor(optimo * 0.6)) and
\* support = max(1, optimo - call_center - professionals).
C23_DotacionPorTipoDeDia ==
    Len(recomendacion) = 1 =>
        \A i \in 1..Len(recomendacion[1]) :
            LET r == recomendacion[1][i]
                optimo == r.personal_total.optimo
                d == r.dotacion_detallada
            IN /\ EsMaxConPiso(d.call_center_secretarias, 2,
                               optimo * 4 * FactorDelDia(r.fecha), 1000)
               /\ EsMaxConPiso(d.profesionales_medicos, 2, optimo * 6, 10)
               /\ EsMaxConPiso(d.personal_apoyo, 1,
                               optimo - d.call_center_secretarias
                                   - d.profesionales_medicos, 1)

\* a Saturday whose call-center headcount is above the floor of 2
C23_Testigo ==
    /\ Len(recomendacion) = 1
    /\ recomendacion[1][1].dia_semana = "Saturday"
    /\ recomendacion[1][1].dotacion_detallada.call_center_secretarias > 2
    /\ recomendacion[1][1].dotacion_detallada.personal_apoyo > 1

\* self.regresores, as listed in metadatos_prophet.json: the columns of the
\* aggregate other than ds and y when crear_dataframe_prophet returned
regresores == SelectSeq(ColumnasProphet, LAMBDA c : c \notin {"ds", "y"})

\* C24: the steps after the aggregation leave the daily aggregate as it was
\* created: the table that is saved has exactly the columns ds, y and the
\* regressors listed in its metadata, and the rows crear_dataframe_prophet gave.
C24_AgregadoSinEditar ==
    Len(archivo_datos) = 1 =>
        /\ archivo_datos[1].columnas = <<"ds", "y">> \o regresores
        /\ archivo_datos[1].filas = crear_dataframe_prophet(transacciones)

\* the transactions of a date in one list of the input
DelDia(lista, d) == {i \in 1..Len(lista) : lista[i].fecha_str = d}

RECURSIVE DuracionTotal(_, _)
DuracionTotal(lista, I) ==
    IF I = {} THEN 0
    ELSE LET i == CHOOSE x \in I : TRUE
         IN lista[i].duracion + DuracionTotal(lista, I \ {i})

\* the dates present in the input
FechasPresentes(datos) ==
    {datos.reservas[i].fecha_str : i \in 1..Len(datos.reservas)}
        \cup {datos.conversaciones[i].fecha_str : i \in 1..Len(datos.conversaciones)}
        \cup {datos.llamadas[i].fecha_str : i \in 1..Len(datos.llamadas)}

\* C25: every business day present in the input has exactly one row in the
\* result of calcular_variable_objetivo, and its y is
\* (minutes of the day / 60 + 0.1 * events of the day) / 8 over reservations,
\* conversations and calls together (here times 4800, minutes in tenths).
C25_VariableObjetivo ==
    Len(objetivo_diario) = 1 =>
        \A d \in FechasPresentes(datos_normalizados) :
            EsDiaLaboral(d) =>
                LET datos == datos_normalizados
                    minutos == DuracionTotal(datos.reservas, DelDia(datos.reservas, d))
                                 + DuracionTotal(datos.conversaciones,
                                                 DelDia(datos.conversaciones, d))
                                 + DuracionTotal(datos.llamadas,
                                                 DelDia(datos.llamadas, d))
                    eventos == Cardinality(DelDia(datos.reservas, d))
                                 + Cardinality(DelDia(datos.conversaciones, d))
                                 + Cardinality(DelDia(datos.llamadas, d))
                    filas == {i \in 1..Len(objetivo_diario[1]) :
                                  objetivo_diario[1][i].ds = d}
                IN /\ Cardinality(filas) = 1
                   /\ \A i \in filas : objetivo_diario[1][i].y = minutos + 60 * eventos

\* a Monday with a reservation, a conversation and two calls
C25_Testigo ==
    /\ Len(objetivo_diario) = 1
    /\ Cardinality(DelDia(datos_normalizados.reservas, 7)) = 1
    /\ Cardinality(DelDia(datos_normalizados.conversaciones, 7)) = 1
    /\ Cardinality(DelDia(datos_normalizados.llamadas, 7)) = 2
    /\ \E i \in 1..Len(objetivo_diario[1]) :
           objetivo_diario[1][i].ds = 7 /\ objetivo_diario[1][i].y > 60 * 4

\* the detailed headcount of a recommendation, the three roles added
DotacionTotal(r) ==
    r.dotacion_detallada.call_center_secretarias
        + r.dotacion_detallada.profesionales_medicos
        + r.dotacion_detallada.personal_apoyo

\* C26: in every recommendation the three roles add up to at least the
\* optimal headcount, and to exactly the optimal headcount when and only when
\* optimo - call_center - professionals >= 1.
C26_DotacionCubreOptimo ==
    Len(recomendacion) = 1 =>
        \A i \in 1..Len(recomendacion[1]) :
            LET r == recomendacion[1][i]
                resto == r.personal_total.optimo
                             - r.dotacion_detallada.call_center_secretarias
                             - r.dotacion_detallada.profesionales_medicos
            IN /\ DotacionTotal(r) >= r.personal_total.optimo
               /\ DotacionTotal(r) = r.personal_total.optimo <=> resto >= 1

\* a recommendation whose roles add up to more than the optimal and more than
\* the maximum headcount
C26_Testigo ==
    /\ Len(recomendacion) = 1
    /\ DotacionTotal(recomendacion[1][1]) > recomendacion[1][1].personal_total.optimo
    /\ DotacionTotal(recomendacion[1][1]) > recomendacion[1][1].personal_total.maximo

\* C27: without a metadata file evaluar_necesidad_reentrenamiento answers
\* True; with one that cannot be read it answers False, and the run goes on to
\* the prediction without training.
C27_MetadatosAusentesOIlegibles ==
    (Len(corrida) = 1 /\ corrida[1].necesita_reentrenamiento # "no_evaluado") =>
        /\ metadatos_base.estado = "ausente" =>
               /\ corrida[1].necesita_reentrenamiento = "True"
               /\ "entrenamiento" \in EtapasDe(corrida[1])
        /\ metadatos_base.estado = "ilegible" =>
               /\ corrida[1].necesita_reentrenamiento = "False"
               /\ "entrenamiento" \notin EtapasDe(corrida[1])
               /\ "prediccion" \in EtapasDe(corrida[1])

\* a run with an unreadable metadata file that forecast without training
C27_Testigo ==
    /\ Len(corrida) = 1
    /\ metadatos_base.estado = "ilegible"
    /\ corrida[1].necesita_reentrenamiento = "False"
    /\ corrida[1].entrenamiento = "no_ejecutado"
    /\ corrida[1].prediccion = "ok"

\* C28: inside one priority level the alerts keep the order in which they were
\* generated: the alerts of the days by ascending date (the demand alert of a
\* day before its uncertainty alert), and PATRON_SEMANAL after every ALTA alert.
C28_OrdenDentroDePrioridad ==
    Len(alertas) = 1 =>
        \A i, j \in 1..Len(alertas[1]) :
            LET a == alertas[1][i]
                b == alertas[1][j]
            IN (i < j /\ a.prioridad = b.prioridad) =>
                   /\ a.tipo # "PATRON_SEMANAL"
                   /\ b.tipo # "PATRON_SEMANAL" => a.fecha <= b.fecha
                   /\ (b.tipo # "PATRON_SEMANAL" /\ a.fecha = b.fecha) =>
                          (a.tipo = "BAJA" /\ b.tipo = "INCERTIDUMBRE")

\* a week whose list has ALTA alerts on two dates and the PATRON_SEMANAL alert
C28_Testigo ==
    /\ Len(alertas) = 1
    /\ \E i, j, k \in 1..Len(alertas[1]) :
           /\ i < j /\ j < k
           /\ alertas[1][i].tipo = "ALTA"
           /\ alertas[1][j].tipo = "ALTA"
           /\ alertas[1][i].fecha < alertas[1][j].fecha
           /\ alertas[1][k].tipo = "PATRON_SEMANAL"

\* C29: in every bundle built by exportar_resultados the summary agrees with
\* the body: horizonte_prediccion is the number of prediction records,
\* total_alertas the length of alertas, alertas_criticas the number of CRITICA
\* alerts, and recomendaciones_staffing has one entry per prediction.
C29_ResumenConsistente ==
    \A i \in DOMAIN exportaciones :
        Len(exportaciones[i].export_data) = 1 =>
            LET d == exportaciones[i].export_data[1]
            IN /\ d.metadata.horizonte_prediccion = Len(d.predicciones)
               /\ d.resumen_ejecutivo.total_alertas = Len(d.alertas)
               /\ d.resumen_ejecutivo.alertas_criticas =
                      Cardinality({k \in DOMAIN d.alertas :
                                      d.alertas[k].tipo = "CRITICA"})
               /\ Len(d.recomendaciones_staffing) = Len(d.predicciones)
               /\ \A k \in DOMAIN d.predicciones :
                      d.recomendaciones_staffing[k].fecha = d.predicciones[k].ds

\* a written bundle of several days with critical and other alerts
C29_Testigo ==
    \E i \in DOMAIN exportaciones :
        /\ exportaciones[i].exito
        /\ Len(exportaciones[i].export_data) = 1
        /\ LET d == exportaciones[i].export_data[1]
           IN /\ Len(d.predicciones) > 1
              /\ d.resumen_ejecutivo.alertas_criticas > 0
              /\ d.resumen_ejecutivo.alertas_criticas < d.resumen_ejecutivo.total_alertas
              /\ \E k \in DOMAIN d.alertas : d.alertas[k].tipo = "ALTA"

=============================================================================
